---- MODULE Spec2Model ----
(***************************************************************************)
(* A state-machine model of the image-classifier repository:               *)
(*   - ExperimentTracker of src/utils/experiment_tracking.py               *)
(*   - ExperimentTracker / WandBTracker / MLflowTracker of                 *)
(*     src/utils/wandb_tracker.py                                          *)
(*   - main, train_epoch and validate of src/training/train.py             *)
(*   - AverageMeter of src/utils/metrics.py                                *)
(* Spec      : the two tracker classes (one object of one class per run)   *)
(* SpecTrain : train.main                                                  *)
(* SpecEpoch : train_epoch on one data loader                              *)
(* SpecMeter : AverageMeter under arbitrary reset/update calls             *)
(***************************************************************************)
EXTENDS Integers, Sequences, FiniteSets, TLC

VARIABLES
    \* ---- the tracker object (either class) ----
    tracker_class,      \* "experiment_tracking" | "wandb_tracker" | "idle"
    tracker_pc,         \* "new" | "ready" | "raised" (the constructor raised)
                        \* | "exited" (the with statement was left)
    cfg,                \* the tracking section of the configuration
    arg_backend,        \* the tracking_backend argument of __init__
    tracking_backend,   \* self.tracking_backend / self.backend
    mlflow_run,         \* self.mlflow_run: "None" | "run"
    wandb_run,          \* self.wandb_run:  "None" | "run"
    avail,              \* [wandb, mlflow]: WANDB_AVAILABLE, MLFLOW_AVAILABLE
    trackers,           \* self.trackers of wandb_tracker.ExperimentTracker
    attempted,          \* backends whose initialisation was entered
    init_failed,        \* backends whose initialisation raised
    last,               \* what the last method call did
    ckpt_file,          \* the checkpoint file <model_save_dir>/<name>_best.pth
    \* ---- train.main ----
    main_pc,            \* position in main
    train_cfg,          \* the configuration main runs with
    epoch,              \* the loop variable of the epoch loop
    history,            \* history: four lists
    measurement,        \* train_loss, train_acc, val_loss, val_acc of the epoch
    best_val_acc,
    patience_counter,
    model_state,        \* the weights held by model
    completed,          \* number of epoch bodies run to their end
    measured,           \* what train_epoch and validate returned, per epoch
    events,             \* the external effects of main, in order
    evaluated,          \* the weights the test-set evaluation ran on
    \* ---- AverageMeter ----
    meter,              \* an AverageMeter: val, avg, sum, count
    meter_log,          \* the updates made since the last reset
    \* ---- train_epoch / validate ----
    ep_pc,              \* position in the function
    ep_mode,            \* "train" (train_epoch) | "validate"
    loader,             \* the data loader: the batch sizes it yields
    clip_grad_norm,     \* "None" or a norm
    batch,              \* number of batches taken from the loader
    batch_loss,         \* loss.item() of the current batch
    batch_losses,       \* loss.item() of every batch so far
    batch_correct,      \* predicted.eq(labels).sum().item() of the batch
    trace,              \* the operations done on the current batch, in order
    optimizer_steps,    \* number of optimizer.step() calls
    losses,             \* the AverageMeter of the function
    correct,
    total,
    ep_result           \* what the function returned

trackerVars == <<tracker_class, tracker_pc, cfg, arg_backend, tracking_backend,
                 mlflow_run, wandb_run, avail, trackers, attempted,
                 init_failed, last>>

mainVars == <<main_pc, train_cfg, epoch, history, measurement, best_val_acc,
              patience_counter, model_state, completed, measured, events,
              evaluated>>

meterVars == <<meter, meter_log>>

epochVars == <<ep_pc, ep_mode, loader, clip_grad_norm, batch, batch_loss,
               batch_losses, batch_correct, trace, optimizer_steps, losses, correct, total,
               ep_result>>

VARIABLES
    \* ---- the serving applications ----
    serve_app,          \* "serve" (serve/app.py) | "main" (src/app/main.py) | "idle"
    startup,            \* the startup hook: "pending" | "done" | "failed"
    model_file,         \* what is at models/simple_cnn_best.pth
    MODEL_CACHE,        \* serve/app.py: a dict, as a set of <<key, value>>
    stores,             \* number of times load_model stored into MODEL_CACHE
    model,              \* src/app/main.py: the global model
    temp_image,         \* /tmp/temp_image.jpg: the request whose image it holds
    reqs,               \* the requests waiting at an await
    response            \* the last response sent

serveVars == <<serve_app, startup, model_file, MODEL_CACHE, stores, model,
               temp_image, reqs, response>>

VARIABLES
    \* ---- SimpleCNN ----
    cnn_pc,             \* "new" | "built" | "returned" | "RuntimeError" | "idle"
    cnn_args,           \* the constructor's arguments and the input of forward
    cnn,                \* the module: num_classes, input_channels, fc1's input size
    x_shape,            \* the shape of x in forward
    layer               \* number of statements of forward executed

cnnVars == <<cnn_pc, cnn_args, cnn, x_shape, layer>>

VARIABLES
    \* ---- the with statement around an ExperimentTracker ----
    with_stmt           \* its position, the target of "as", the exception of
                        \* the block and what left the statement

withVars == <<with_stmt>>

VARIABLES
    \* ---- _flatten_dict ----
    flat_pc,            \* "call" | "returned" | "idle"
    flat_in,            \* the dict passed to _flatten_dict
    flat_out            \* the dict it returned

flatVars == <<flat_pc, flat_in, flat_out>>

VARIABLES
    \* ---- the data loaders ----
    split_pc,           \* "start" | "train_epoch" | "validate" | "done" | "idle"
    n_samples,          \* len(train_dataset) before the split
    val_split,          \* the fraction <<numerator, denominator>>
    loader_batch_size,
    train_indices,      \* the indices of the training subset
    val_indices,        \* the indices of the validation subset
    remaining,          \* the samples the current loader has not yet yielded
    stepped,            \* the samples of batches optimizer.step() was run on
    validated,          \* the samples of batches validate has evaluated
    passes              \* epochs completed

splitVars == <<split_pc, n_samples, val_split, loader_batch_size, train_indices,
               val_indices, remaining, stepped, validated, passes>>

VARIABLES
    \* ---- calculate_metrics ----
    metrics_pc,         \* "called" | "returned" | "idle"
    predictions,        \* the array of predicted labels
    labels,             \* the array of true labels
    average,            \* the averaging strategy
    metrics             \* the returned dict

metricsVars == <<metrics_pc, predictions, labels, average, metrics>>

VARIABLES
    \* ---- the tracking launcher ----
    launch_pc,          \* "main" | "setup_environment" | "subprocess.run" |
                        \* "waiting" | "exited" | "idle"
    installed,          \* the tracking modules that can be imported
    deps,               \* the dict check_dependencies returns
    environ,            \* the keys of os.environ that are set
    mlruns,             \* what ./mlruns is
    runs,               \* the number of subprocesses started
    child,              \* the training subprocess
    exit_status,        \* the exit status of the launcher, -1 while it runs
    uncaught            \* the exception that ended main, or "none"

launchVars == <<launch_pc, installed, deps, environ, mlruns, runs, child,
                exit_status, uncaught>>

VARIABLES
    \* ---- get_model and ResNet ----
    net_pc,             \* "get_model" | "returned" | "ValueError" | "forward" |
                        \* "forwarded" | "RuntimeError" | "idle"
    net_args,           \* the arguments of get_model and the input of forward
    net,                \* the model get_model returned
    constructed,        \* the classes of the models constructed, in order
    net_x,              \* the tensor in ResNet.forward
    net_step,           \* statements of ResNet.forward executed
    block_in,           \* the input of the residual block run last
    block_main,         \* what its main path gave
    block_shortcut      \* what its shortcut gave

resnetVars == <<net_pc, net_args, net, constructed, net_x, net_step, block_in,
                block_main, block_shortcut>>

laterVars == <<serveVars, cnnVars, withVars, flatVars, splitVars, metricsVars, launchVars, resnetVars>>

\* the variables of the other subsystems
serveOthers == <<cnnVars, withVars, flatVars, splitVars, metricsVars, launchVars, resnetVars>>
cnnOthers == <<serveVars, withVars, flatVars, splitVars, metricsVars, launchVars, resnetVars>>
withOthers == <<serveVars, cnnVars, flatVars, splitVars, metricsVars, launchVars, resnetVars>>
flatOthers == <<serveVars, cnnVars, withVars, splitVars, metricsVars, launchVars, resnetVars>>
splitOthers == <<serveVars, cnnVars, withVars, flatVars, metricsVars, launchVars, resnetVars>>
metricsOthers == <<serveVars, cnnVars, withVars, flatVars, splitVars, launchVars, resnetVars>>
launchOthers == <<serveVars, cnnVars, withVars, flatVars, splitVars, metricsVars, resnetVars>>
resnetOthers == <<serveVars, cnnVars, withVars, flatVars, splitVars, metricsVars, launchVars>>

coreVars == <<trackerVars, ckpt_file, mainVars, meterVars, epochVars>>

vars == <<trackerVars, ckpt_file, mainVars, meterVars, epochVars, laterVars>>

(***************************************************************************)
(* Strings are tuples of characters, so that lower(), replace() and        *)
(* strip() are computed and not assumed.                                   *)
(***************************************************************************)
S_mlflow == <<"m", "l", "f", "l", "o", "w">>
S_wandb == <<"w", "a", "n", "d", "b">>
S_both == <<"b", "o", "t", "h">>
S_Both == <<"B", "o", "t", "h">>
S_none == <<"n", "o", "n", "e">>
S_empty == <<>>

LowerChar(c) ==
    CASE c = "B" -> "b"
      [] c = "M" -> "m"
      [] c = "L" -> "l"
      [] c = "W" -> "w"
      [] OTHER -> c

\* str.lower()
Lower(s) == [i \in 1..Len(s) |-> LowerChar(s[i])]

MatchAt(s, old, i) ==
    /\ i + Len(old) - 1 <= Len(s)
    /\ \A j \in 1..Len(old) : s[i + j - 1] = old[j]

RECURSIVE ReplaceFrom(_, _, _, _)
ReplaceFrom(s, old, new, i) ==
    IF i > Len(s) THEN <<>>
    ELSE IF MatchAt(s, old, i)
         THEN new \o ReplaceFrom(s, old, new, i + Len(old))
         ELSE <<s[i]>> \o ReplaceFrom(s, old, new, i + 1)

\* str.replace(old, new) for a non-empty old: every non-overlapping
\* occurrence, left to right
Replace(s, old, new) == ReplaceFrom(s, old, new, 1)

RECURSIVE Strip(_)
\* str.strip()
Strip(s) ==
    IF s = <<>> THEN s
    ELSE IF Head(s) = " " THEN Strip(Tail(s))
    ELSE IF s[Len(s)] = " " THEN Strip(SubSeq(s, 1, Len(s) - 1))
    ELSE s

(***************************************************************************)
(* Configuration: cfg.tracking may be missing; each key of it is "true",   *)
(* "false" or "absent".                                                    *)
(***************************************************************************)
FlagKeys == {"autolog", "log_params", "log_metrics", "log_artifacts",
             "log_models", "log_model", "watch_model"}
CfgKeys == FlagKeys \cup {"enabled"}

AllAbsent == [k \in CfgKeys |-> "absent"]

\* the configurations explored: no tracking section; a tracking section
\* without "enabled" or with enabled false; and enabled true with at most
\* one other key set explicitly (the other keys take their defaults)
Configs ==
    {[section |-> FALSE, keys |-> AllAbsent]} \cup
    {[section |-> TRUE, keys |-> [AllAbsent EXCEPT !["enabled"] = e]] :
        e \in {"absent", "true", "false"}} \cup
    {[section |-> TRUE,
      keys |-> [AllAbsent EXCEPT !["enabled"] = "true", ![k] = v]] :
        k \in FlagKeys, v \in {"true", "false"}}

\* cfg.tracking.get(key, default)
Get(c, key, default) ==
    IF c.keys[key] = "absent" THEN default ELSE c.keys[key] = "true"

\* not (not hasattr(cfg, "tracking") or not hasattr(cfg.tracking, "enabled")
\*      or not cfg.tracking.enabled)
TrackingEnabled(c) == c.section /\ c.keys["enabled"] = "true"

BackendArgs == {S_mlflow, S_wandb, S_Both, S_none}

NoCall == [op |-> "none", arg |-> "-", calls |-> <<>>, mlflow_failed |-> FALSE,
           wandb_failed |-> FALSE, returned |-> "normal"]

NoFile == [exists |-> FALSE, keys |-> {}, writer |-> "none", epoch |-> -1,
           val_acc |-> -1, state |-> <<"none", 0>>]

(***************************************************************************)
(* experiment_tracking.ExperimentTracker: initialisation                   *)
(***************************************************************************)
MlflowSteps == <<"import", "set_tracking_uri", "set_experiment", "start_run",
                 "print_run_id", "autolog">>
WandbSteps == <<"import", "to_container", "init", "print_run", "watch_note">>

StepIndex(steps, s) == CHOOSE i \in 1..Len(steps) : steps[i] = s

\* the exceptions a step of an initialisation can raise
ExcKinds == {"ImportError", "Exception"}
NoFault == [at |-> "none", kind |-> "none"]
Faults(steps) ==
    {NoFault} \cup
    {[at |-> steps[i], kind |-> k] : i \in 1..Len(steps), k \in ExcKinds}

\* Executes without the disabled check
Executes_NoDisabledCheck(steps, c, s, optional) ==
    \/ s = "import"
    \/ (s \in DOMAIN optional => Get(c, optional[s], FALSE))

\* does the try block get as far as executing step s (and is it executed)?
\* The import comes first; the disabled check returns before anything else.
Executes(steps, c, s, optional) ==
    \/ s = "import"
    \/ /\ TrackingEnabled(c)
       /\ (s \in DOMAIN optional => Get(c, optional[s], FALSE))

\* the fault f strikes when its step is executed
Strikes(steps, c, f, optional) ==
    /\ f.at # "none"
    /\ Executes(steps, c, f.at, optional)

\* the step s completed: it is executed and the fault did not strike at or
\* before it
Completed(steps, c, f, s, optional) ==
    /\ Executes(steps, c, s, optional)
    /\ (Strikes(steps, c, f, optional) =>
            StepIndex(steps, s) < StepIndex(steps, f.at))

MlflowOptional == [autolog |-> "autolog"]
WandbOptional == [watch_note |-> "watch_model"]

\* HandleInit without its "except Exception" clause
HandleInit_OnlyImportError(tb, kind, own, other) ==
    IF kind = "ImportError"
    THEN [tracking_backend |->
              Strip(Replace(Replace(tb, own, S_empty), S_both, other)),
          raised |-> FALSE]
    ELSE [tracking_backend |-> tb, raised |-> TRUE]

\* the except clauses of _init_mlflow / _init_wandb: what becomes of
\* self.tracking_backend, and whether the exception leaves the method
HandleInit(tb, kind, own, other) ==
    IF kind = "ImportError"
    THEN [tracking_backend |->
              Strip(Replace(Replace(tb, own, S_empty), S_both, other)),
          raised |-> FALSE]
    ELSE [tracking_backend |-> tb, raised |-> FALSE]

\* _init_mlflow: the run is assigned by start_run
_init_mlflow(c, tb, f) ==
    LET struck == Strikes(MlflowSteps, c, f, MlflowOptional)
        h == IF struck THEN HandleInit(tb, f.kind, S_mlflow, S_wandb)
             ELSE [tracking_backend |-> tb, raised |-> FALSE]
    IN [tracking_backend |-> h.tracking_backend,
        run |-> IF Completed(MlflowSteps, c, f, "start_run", MlflowOptional)
                THEN "run" ELSE "None",
        failed |-> struck,
        raised |-> h.raised]

\* _init_wandb: the run is assigned by wandb.init
_init_wandb(c, tb, f) ==
    LET struck == Strikes(WandbSteps, c, f, WandbOptional)
        h == IF struck THEN HandleInit(tb, f.kind, S_wandb, S_mlflow)
             ELSE [tracking_backend |-> tb, raised |-> FALSE]
    IN [tracking_backend |-> h.tracking_backend,
        run |-> IF Completed(WandbSteps, c, f, "init", WandbOptional)
                THEN "run" ELSE "None",
        failed |-> struck,
        raised |-> h.raised]

\* ExperimentTracker.__init__ with the faults fm, fw of the two backends
Construct(fm, fw) ==
    /\ tracker_class = "experiment_tracking"
    /\ tracker_pc = "new"
    /\ LET tb0 == Lower(arg_backend)
           doM == tb0 \in {S_mlflow, S_both}
           m == IF doM THEN _init_mlflow(cfg, tb0, fm)
                ELSE [tracking_backend |-> tb0, run |-> "None",
                      failed |-> FALSE, raised |-> FALSE]
           doW == ~m.raised /\ m.tracking_backend \in {S_wandb, S_both}
           w == IF doW THEN _init_wandb(cfg, m.tracking_backend, fw)
                ELSE [tracking_backend |-> m.tracking_backend, run |-> "None",
                      failed |-> FALSE, raised |-> FALSE]
       IN /\ tracking_backend' = w.tracking_backend
          /\ mlflow_run' = m.run
          /\ wandb_run' = w.run
          /\ attempted' = (IF doM THEN {"mlflow"} ELSE {}) \cup
                          (IF doW THEN {"wandb"} ELSE {})
          /\ init_failed' = (IF m.failed THEN {"mlflow"} ELSE {}) \cup
                            (IF w.failed THEN {"wandb"} ELSE {})
          /\ tracker_pc' = IF m.raised \/ w.raised THEN "raised" ELSE "ready"
    /\ UNCHANGED <<tracker_class, cfg, arg_backend, avail, trackers, last,
                   ckpt_file, mainVars, meterVars, epochVars, laterVars>>

ConstructTracker ==
    \E fm \in Faults(MlflowSteps), fw \in Faults(WandbSteps) : Construct(fm, fw)

(***************************************************************************)
(* experiment_tracking.ExperimentTracker: the logging methods.  Every      *)
(* method is an MLflow section followed by a W&B section, each of the      *)
(* form   if self.<run> and <flag>: try: <client calls> except Exception   *)
(***************************************************************************)
\* the condition of a section: "skip", "enter", or "error" when
\* self.cfg.tracking is evaluated and the configuration has no such section
Gate(run, c, key, default) ==
    IF run = "None" \/ key = "never" THEN "skip"
    ELSE IF key = "always" THEN "enter"
    ELSE IF ~c.section THEN "error"
    ELSE IF Get(c, key, default) THEN "enter" ELSE "skip"

\* TrySection without the except clause: the client's exception propagates
TrySection_Propagate(backend, apis, fault) ==
    LET struck == fault /\ apis # <<>>
    IN [calls |-> IF struck THEN <<<<backend, apis[1]>>>>
                  ELSE [i \in 1..Len(apis) |-> <<backend, apis[i]>>],
        failed |-> struck,
        raised |-> struck]

\* try: <client calls apis, in order> except Exception as e: print(...)
\* The client raises on the first call when fault is true.
TrySection(backend, apis, fault) ==
    LET struck == fault /\ apis # <<>>
    IN [calls |-> IF struck THEN <<<<backend, apis[1]>>>>
                  ELSE [i \in 1..Len(apis) |-> <<backend, apis[i]>>],
        failed |-> struck,
        raised |-> FALSE]

Skipped == [calls |-> <<>>, failed |-> FALSE, raised |-> FALSE]
Errored == [calls |-> <<>>, failed |-> FALSE, raised |-> TRUE]

Section(gate, backend, apis, fault) ==
    CASE gate = "enter" -> TrySection(backend, apis, fault)
      [] gate = "error" -> Errored
      [] OTHER -> Skipped

\* what one method call does: the MLflow section, then the W&B section
Call(op, arg, mkey, mdef, mapis, wkey, wdef, wapis, fm, fw) ==
    LET m == Section(Gate(mlflow_run, cfg, mkey, mdef), "mlflow", mapis, fm)
        w == IF m.raised THEN Skipped
             ELSE Section(Gate(wandb_run, cfg, wkey, wdef), "wandb", wapis, fw)
    IN [op |-> op,
        arg |-> arg,
        calls |-> m.calls \o w.calls,
        mlflow_failed |-> m.failed,
        wandb_failed |-> w.failed,
        returned |-> IF m.raised \/ w.raised THEN "raised" ELSE "normal"]

\* one method call on a constructed tracker
Method(op, arg, mkey, mdef, mapis, wkey, wdef, wapis, fm, fw) ==
    /\ tracker_class = "experiment_tracking"
    /\ tracker_pc = "ready"
    /\ last' = Call(op, arg, mkey, mdef, mapis, wkey, wdef, wapis, fm, fw)
    /\ UNCHANGED <<tracker_class, tracker_pc, cfg, arg_backend,
                   tracking_backend, mlflow_run, wandb_run, avail, trackers,
                   attempted, init_failed, ckpt_file, mainVars, meterVars, epochVars, laterVars>>

log_params ==
    \E fm \in BOOLEAN, fw \in BOOLEAN :
        Method("log_params", "-", "log_params", TRUE, <<"log_params">>,
               "log_params", TRUE, <<"config.update">>, fm, fw)

\* one mlflow.log_metric per key of the metrics dict, one wandb.log; step is
\* None or an epoch number
log_metrics ==
    \E fm \in BOOLEAN, fw \in BOOLEAN, nkeys \in {0, 1, 2}, step \in {"None", "1"} :
        Method("log_metrics", step, "log_metrics", TRUE,
               [i \in 1..nkeys |-> "log_metric"],
               "log_metrics", TRUE, <<"log">>, fm, fw)

PathKinds == {"file", "dir", "missing"}

log_artifact ==
    \E fm \in BOOLEAN, fw \in BOOLEAN, kind \in PathKinds :
        Method("log_artifact", kind, "log_artifacts", TRUE,
               CASE kind = "file" -> <<"log_artifact">>
                 [] kind = "dir" -> <<"log_artifacts">>
                 [] OTHER -> <<>>,
               "log_artifacts", TRUE,
               IF kind = "file" THEN <<"save">> ELSE <<>>, fm, fw)

log_model ==
    \E fm \in BOOLEAN, fw \in BOOLEAN, model_path \in {"None", "path"} :
        Method("log_model", model_path, "log_models", TRUE, <<"pytorch.log_model">>,
               "log_model", TRUE,
               IF model_path # "None" THEN <<"save">> ELSE <<>>, fm, fw)

log_figure ==
    \E fm \in BOOLEAN, fw \in BOOLEAN :
        Method("log_figure", "-", "always", TRUE, <<"log_figure">>,
               "always", TRUE, <<"Image", "log">>, fm, fw)

watch_model ==
    \E fw \in BOOLEAN :
        Method("watch_model", "-", "never", FALSE, <<>>,
               "watch_model", FALSE, <<"watch">>, FALSE, fw)

finish ==
    \E fm \in BOOLEAN, fw \in BOOLEAN :
        Method("finish", "-", "always", TRUE, <<"end_run">>,
               "always", TRUE, <<"finish">>, fm, fw)

(***************************************************************************)
(* wandb_tracker.ExperimentTracker: a list of trackers, every method a     *)
(* loop over the list                                                      *)
(***************************************************************************)
\* the try/except Exception around the construction of one tracker in
\* ExperimentTracker.__init__: the tracker is appended unless its
\* constructor raised; the exception never leaves __init__
TryTracker(name, trs, fault) ==
    [trackers |-> IF fault THEN trs ELSE Append(trs, name),
     failed |-> fault,
     raised |-> FALSE]

\* wandb_tracker.ExperimentTracker.__init__; fw, fm: the constructor of
\* WandBTracker / MLflowTracker raises
ConstructUnified(fw, fm) ==
    /\ tracker_class = "wandb_tracker"
    /\ tracker_pc = "new"
    /\ LET b == Lower(arg_backend)
           doW == b \in {S_wandb, S_both} /\ avail.wandb
           w == IF doW THEN TryTracker("wandb", <<>>, fw)
                ELSE [trackers |-> <<>>, failed |-> FALSE, raised |-> FALSE]
           doM == ~w.raised /\ b \in {S_mlflow, S_both} /\ avail.mlflow
           m == IF doM THEN TryTracker("mlflow", w.trackers, fm)
                ELSE [trackers |-> w.trackers, failed |-> FALSE,
                      raised |-> FALSE]
       IN /\ tracking_backend' = b
          /\ trackers' = m.trackers
          /\ attempted' = (IF doW THEN {"wandb"} ELSE {}) \cup
                          (IF doM THEN {"mlflow"} ELSE {})
          /\ init_failed' = (IF w.failed THEN {"wandb"} ELSE {}) \cup
                            (IF m.failed THEN {"mlflow"} ELSE {})
          /\ tracker_pc' = IF w.raised \/ m.raised THEN "raised" ELSE "ready"
    /\ UNCHANGED <<tracker_class, cfg, arg_backend, mlflow_run, wandb_run,
                   avail, last, ckpt_file, mainVars, meterVars, epochVars, laterVars>>

ConstructUnifiedTracker ==
    \E fw \in BOOLEAN, fm \in BOOLEAN : ConstructUnified(fw, fm)

\* the position of the first tracker of trs whose call raises, 0 if none
FirstFailure(trs, faulty) ==
    IF \E i \in 1..Len(trs) : trs[i] \in faulty
    THEN CHOOSE i \in 1..Len(trs) :
            /\ trs[i] \in faulty
            /\ \A j \in 1..(i - 1) : trs[j] \notin faulty
    ELSE 0

\* for tracker in self.trackers: tracker.<op>(...)
\* No try: the first call that raises ends the loop and the method.
FanOut(op, trs, faulty) ==
    LET k == FirstFailure(trs, faulty)
        n == IF k = 0 THEN Len(trs) ELSE k
    IN [op |-> op,
        arg |-> "-",
        calls |-> [i \in 1..n |-> <<trs[i], op>>],
        mlflow_failed |-> k # 0 /\ trs[k] = "mlflow",
        wandb_failed |-> k # 0 /\ trs[k] = "wandb",
        returned |-> IF k = 0 THEN "normal" ELSE "raised"]

FaultSets == SUBSET {"wandb", "mlflow"}

UnifiedMethod(op, faulty) ==
    /\ tracker_class = "wandb_tracker"
    /\ tracker_pc = "ready"
    /\ last' = FanOut(op, trackers, faulty)
    /\ UNCHANGED <<tracker_class, tracker_pc, cfg, arg_backend,
                   tracking_backend, mlflow_run, wandb_run, avail, trackers,
                   attempted, init_failed, ckpt_file, mainVars, meterVars, epochVars, laterVars>>

UnifiedOps == {"log_params", "log_metrics", "log_model_architecture",
               "log_artifact", "finish"}

\* log_params, log_metrics, log_model_architecture, log_artifact, finish
unified_log ==
    \E op \in UnifiedOps, faulty \in FaultSets : UnifiedMethod(op, faulty)

\* the mapping WandBTracker.log_model_checkpoint hands to torch.save
WandbCheckpoint ==
    [exists |-> TRUE, keys |-> {"model_state_dict", "metrics", "config"},
     writer |-> "WandBTracker.log_model_checkpoint", epoch |-> -1,
     val_acc |-> -1, state |-> <<"logged", 0>>]

\* log_model_checkpoint: WandBTracker writes checkpoint_path with torch.save
\* and then uploads it; save_fails: torch.save itself raises
log_model_checkpoint ==
    \E faulty \in FaultSets, save_fails \in BOOLEAN :
        /\ tracker_class = "wandb_tracker"
        /\ tracker_pc = "ready"
        /\ save_fails => "wandb" \in faulty
        /\ LET r == FanOut("log_model_checkpoint", trackers, faulty)
               reached == \E i \in 1..Len(r.calls) : r.calls[i][1] = "wandb"
           IN /\ last' = r
              /\ ckpt_file' = IF reached /\ ~save_fails THEN WandbCheckpoint
                              ELSE ckpt_file
        /\ UNCHANGED <<tracker_class, tracker_pc, cfg, arg_backend,
                       tracking_backend, mlflow_run, wandb_run, avail,
                       trackers, attempted, init_failed, mainVars, meterVars, epochVars, laterVars>>

(***************************************************************************)
(* Properties of the tracker classes (checked under Spec)                  *)
(***************************************************************************)
CallsTo(b) == {i \in 1..Len(last.calls) : last.calls[i][1] = b}

IsTrackerReady(c) == tracker_class = c /\ tracker_pc = "ready"

\* C1: in experiment_tracking.ExperimentTracker, a backend whose
\* initialisation raised at any step receives no client call from any later
\* method call.
C1_FailedBackendIsDropped ==
    IsTrackerReady("experiment_tracking") =>
        \A b \in init_failed : CallsTo(b) = {}

\* C2: the constructor of either ExperimentTracker class never raises, and
\* with the backend "both" the initialisation of each backend is entered
\* whatever happened to the other one (in wandb_tracker: of each backend
\* whose module could be imported).
C2_ConstructorNeverRaises ==
    /\ tracker_pc # "raised"
    /\ (tracker_pc = "ready" /\ Lower(arg_backend) = S_both) =>
          /\ tracker_class = "experiment_tracking" =>
                attempted = {"mlflow", "wandb"}
          /\ tracker_class = "wandb_tracker" =>
                attempted = {b \in {"wandb", "mlflow"} : avail[b]}

\* C2's case: "both" was asked for, MLflow failed to import, and the W&B
\* initialisation was entered all the same
C2_Witness ==
    /\ IsTrackerReady("experiment_tracking")
    /\ Lower(arg_backend) = S_both
    /\ "mlflow" \in init_failed
    /\ tracking_backend = S_wandb
    /\ "wandb" \in attempted

\* the flag that guards the W&B section of each method, as the source has it
WandbSectionOpen(op) ==
    /\ wandb_run = "run"
    /\ CASE op = "log_params" -> Get(cfg, "log_params", TRUE)
         [] op = "log_metrics" -> Get(cfg, "log_metrics", TRUE)
         [] op = "log_artifact" ->
                Get(cfg, "log_artifacts", TRUE) /\ last.arg = "file"
         [] op = "log_model" ->
                Get(cfg, "log_model", TRUE) /\ last.arg = "path"
         [] op = "watch_model" -> Get(cfg, "watch_model", FALSE)
         [] OTHER -> TRUE

\* C3: every method of experiment_tracking.ExperimentTracker returns
\* normally whichever client raised, and after a failed MLflow call the W&B
\* call of the same method is still made (when W&B is active and the
\* method's W&B section applies).
C3_ClientErrorsAreCaught ==
    IsTrackerReady("experiment_tracking") =>
        /\ last.returned = "normal"
        /\ (last.mlflow_failed /\ WandbSectionOpen(last.op)) =>
              \E i \in CallsTo("mlflow"), j \in CallsTo("wandb") : i < j

\* C3's case: log_metrics with both runs active, the MLflow client raised
\* and the W&B client was called afterwards and raised too
C3_Witness ==
    /\ IsTrackerReady("experiment_tracking")
    /\ last.op = "log_metrics"
    /\ last.mlflow_failed
    /\ last.wandb_failed
    /\ last.returned = "normal"
    /\ CallsTo("wandb") # {}

\* C4: in wandb_tracker.ExperimentTracker a tracker's exception does not
\* reach the caller and every tracker of self.trackers receives the call.
C4_UnifiedErrorsAreCaught ==
    (IsTrackerReady("wandb_tracker") /\ last.op # "none") =>
        /\ last.returned = "normal"
        /\ \A i \in 1..Len(trackers) : CallsTo(trackers[i]) # {}

\* the keys a checkpoint file is to contain
CheckpointKeys == {"model_state_dict", "epoch", "val_acc", "config"}

\* C7: every checkpoint file written has the keys model_state_dict, epoch,
\* val_acc and config.
C7_CheckpointHasAllKeys ==
    ckpt_file.exists => CheckpointKeys \subseteq ckpt_file.keys


(***************************************************************************)
(* utils.metrics.AverageMeter.  Values are integers; the quotient          *)
(* sum / count is kept as a fraction in lowest terms.                      *)
(***************************************************************************)
Abs(x) == IF x < 0 THEN -x ELSE x

RECURSIVE GCD(_, _)
GCD(a, b) == IF b = 0 THEN a ELSE GCD(b, a % b)

\* a / b for b # 0, in lowest terms with a positive denominator
Frac(a, b) ==
    LET g == GCD(Abs(a), Abs(b))
        sgn == IF b < 0 THEN -1 ELSE 1
    IN [num |-> sgn * (a \div g), den |-> sgn * (b \div g)]

Zero == [num |-> 0, den |-> 1]

\* AverageMeter.reset without the reset of sum
MeterReset_KeepsSum(m) == [val |-> 0, avg |-> Zero, sum |-> m.sum, count |-> 0]

\* AverageMeter.reset
MeterReset(m) == [val |-> 0, avg |-> Zero, sum |-> 0, count |-> 0]

\* AverageMeter.update(val, n)
MeterUpdate(m, val, n) ==
    LET sum == m.sum + val * n
        count == m.count + n
    IN [val |-> val,
        sum |-> sum,
        count |-> count,
        avg |-> IF count # 0 THEN Frac(sum, count) ELSE Zero]

\* AverageMeter.__init__
NewMeter == MeterReset([val |-> 0, avg |-> Zero, sum |-> 0, count |-> 0])

MaxVal == 1
MaxN == 2
MaxUpdates == 3

MeterVals == -1..MaxVal
MeterNs == -1..MaxN

reset ==
    /\ meter' = MeterReset(meter)
    /\ meter_log' = <<>>
    /\ UNCHANGED <<trackerVars, ckpt_file, mainVars, epochVars, laterVars>>

update ==
    /\ Len(meter_log) < MaxUpdates
    /\ \E val \in MeterVals, n \in MeterNs :
          /\ meter' = MeterUpdate(meter, val, n)
          /\ meter_log' = Append(meter_log, [val |-> val, n |-> n])
    /\ UNCHANGED <<trackerVars, ckpt_file, mainVars, epochVars, laterVars>>

MeterIdle ==
    /\ meter = NewMeter
    /\ meter_log = <<>>

(***************************************************************************)
(* train.train_epoch and train.validate on one data loader                 *)
(***************************************************************************)
MaxBatches == 2
MaxBatchSize == 2

Loaders ==
    UNION {[1..k -> 1..MaxBatchSize] : k \in 0..MaxBatches}

\* losses of a batch, scaled to small integers
BatchLosses == {0, 1}

\* what no step of the function changes
EpochRest == <<ep_mode, loader, clip_grad_norm, trackerVars, ckpt_file,
               mainVars, meterVars, laterVars>>

BatchInputs == <<batch_loss, batch_losses, batch_correct>>

\* for images, labels in pbar: the next batch, if there is one
NextBatch ==
    /\ ep_pc = "iter"
    /\ batch < Len(loader)
    /\ batch' = batch + 1
    /\ trace' = <<>>
    /\ ep_pc' = "forward"
    /\ UNCHANGED <<EpochRest, BatchInputs, optimizer_steps,
                   losses, correct, total, ep_result>>

\* outputs = model(images); loss = criterion(outputs, labels)
Forward ==
    /\ ep_pc = "forward"
    /\ \E l \in BatchLosses, c \in 0..loader[batch] :
          /\ batch_loss' = l
          /\ batch_losses' = Append(batch_losses, l)
          /\ batch_correct' = c
    /\ trace' = trace \o <<"forward", "loss">>
    /\ ep_pc' = IF ep_mode = "train" THEN "zero_grad" ELSE "update"
    /\ UNCHANGED <<EpochRest, batch, optimizer_steps, losses, correct, total,
                   ep_result>>

\* optimizer.zero_grad()
ZeroGrad ==
    /\ ep_pc = "zero_grad"
    /\ trace' = Append(trace, "zero_grad")
    /\ ep_pc' = "backward"
    /\ UNCHANGED <<EpochRest, batch, BatchInputs,
                   optimizer_steps, losses, correct, total, ep_result>>

\* AfterBackward with the clipping done unconditionally
AfterBackward_AlwaysClips(clip) == "clip"

\* the statement after loss.backward(): the clipping if clip_grad_norm is
\* not None, otherwise optimizer.step()
AfterBackward(clip) == IF clip # "None" THEN "clip" ELSE "step"

\* loss.backward()
Backward ==
    /\ ep_pc = "backward"
    /\ trace' = Append(trace, "backward")
    /\ ep_pc' = AfterBackward(clip_grad_norm)
    /\ UNCHANGED <<EpochRest, batch, BatchInputs,
                   optimizer_steps, losses, correct, total, ep_result>>

\* torch.nn.utils.clip_grad_norm_(model.parameters(), clip_grad_norm)
ClipGradNorm ==
    /\ ep_pc = "clip"
    /\ trace' = Append(trace, "clip")
    /\ ep_pc' = "step"
    /\ UNCHANGED <<EpochRest, batch, BatchInputs,
                   optimizer_steps, losses, correct, total, ep_result>>

\* optimizer.step()
OptimizerStep ==
    /\ ep_pc = "step"
    /\ trace' = Append(trace, "step")
    /\ optimizer_steps' = optimizer_steps + 1
    /\ ep_pc' = "update"
    /\ UNCHANGED <<EpochRest, batch, BatchInputs, losses,
                   correct, total, ep_result>>

\* losses.update(loss.item(), images.size(0)); total += labels.size(0);
\* correct += predicted.eq(labels).sum().item(); pbar.set_postfix(...)
UpdateMetrics ==
    /\ ep_pc = "update"
    /\ losses' = MeterUpdate(losses, batch_loss, loader[batch])
    /\ total' = total + loader[batch]
    /\ correct' = correct + batch_correct
    /\ trace' = Append(trace, "update")
    /\ ep_pc' = "iter"
    /\ UNCHANGED <<EpochRest, batch, BatchInputs,
                   optimizer_steps, ep_result>>

\* return losses.avg, 100. * correct / total
Return ==
    /\ ep_pc = "iter"
    /\ batch = Len(loader)
    /\ IF total = 0
       THEN /\ ep_pc' = "ZeroDivisionError"
            /\ UNCHANGED ep_result
       ELSE /\ ep_pc' = "returned"
            /\ ep_result' = [loss |-> losses.avg,
                             acc |-> Frac(100 * correct, total)]
    /\ UNCHANGED <<EpochRest, batch, BatchInputs, trace,
                   optimizer_steps, losses, correct, total>>

NoResult == [loss |-> Zero, acc |-> Zero]

EpochIdle ==
    /\ ep_pc = "idle"
    /\ ep_mode = "train"
    /\ loader = <<>>
    /\ clip_grad_norm = "None"
    /\ batch = 0
    /\ batch_loss = 0
    /\ batch_losses = <<>>
    /\ batch_correct = 0
    /\ trace = <<>>
    /\ optimizer_steps = 0
    /\ losses = NewMeter
    /\ correct = 0
    /\ total = 0
    /\ ep_result = NoResult

\* the function just before its loop: model.train() / model.eval(),
\* losses = AverageMeter(), correct = 0, total = 0
InitEpochCall ==
    /\ ep_pc = "iter"
    /\ ep_mode \in {"train", "validate"}
    /\ loader \in Loaders
    /\ clip_grad_norm \in {"None", "norm"}
    /\ ep_mode = "validate" => clip_grad_norm = "None"
    /\ batch = 0
    /\ batch_loss = 0
    /\ batch_losses = <<>>
    /\ batch_correct = 0
    /\ trace = <<>>
    /\ optimizer_steps = 0
    /\ losses = NewMeter
    /\ correct = 0
    /\ total = 0
    /\ ep_result = NoResult

(***************************************************************************)
(* train.main                                                              *)
(***************************************************************************)
MaxEpochs == 3
MaxPatience == 2
MaxAcc == 2

\* accuracies and losses, scaled to small integers
Accs == 0..MaxAcc
\* (train_loss, train_acc, val_loss) as train_epoch and validate return them
TrainOutcomes == {<<5, 1, 6>>, <<4, 2, 7>>}

Measurements ==
    {[train_loss |-> t[1], train_acc |-> t[2], val_loss |-> t[3],
      val_acc |-> v] : t \in TrainOutcomes, v \in Accs}

NoMeasurement == [train_loss |-> 0, train_acc |-> 0, val_loss |-> 0,
                  val_acc |-> 0]

EmptyHistory == [train_loss |-> <<>>, train_acc |-> <<>>, val_loss |-> <<>>,
                 val_acc |-> <<>>]

\* a checkpoint left in model_save_dir by an earlier run of main
StaleCheckpoint ==
    [exists |-> TRUE,
     keys |-> {"epoch", "model_state_dict", "optimizer_state_dict", "val_acc",
               "config"},
     writer |-> "earlier run", epoch |-> 0, val_acc |-> 1, state |-> <<"stale", 0>>]

TrainConfigs ==
    [num_epochs : 0..MaxEpochs,
     early_stopping_patience : 0..MaxPatience,
     save_best_only : BOOLEAN,
     tracking : {{}, {"mlflow"}, {"mlflow", "wandb"}}]

\* an external effect of main: "save" (torch.save), "load" (torch.load),
\* "evaluate" (the test-set evaluation) or "log" (a call into a tracker)
Event(kind, e, who) == [kind |-> kind, epoch |-> e, who |-> who]

\* the mapping with the epoch counted from 1
TrainCheckpoint_OneBased(e, m, v) ==
    [exists |-> TRUE,
     keys |-> {"epoch", "model_state_dict", "optimizer_state_dict", "val_acc",
               "config"},
     writer |-> "train.main", epoch |-> e + 1, val_acc |-> v, state |-> m]

\* the mapping main hands to torch.save
TrainCheckpoint(e, m, v) ==
    [exists |-> TRUE,
     keys |-> {"epoch", "model_state_dict", "optimizer_state_dict", "val_acc",
               "config"},
     writer |-> "train.main", epoch |-> e, val_acc |-> v, state |-> m]

\* AppendHistory with the validation loss stored in both loss lists
AppendHistory_WrongList(h, m) ==
    [train_loss |-> Append(h.train_loss, m.val_loss),
     train_acc |-> Append(h.train_acc, m.train_acc),
     val_loss |-> Append(h.val_loss, m.val_loss),
     val_acc |-> Append(h.val_acc, m.val_acc)]

\* history[...].append(...), four times
AppendHistory(h, m) ==
    [train_loss |-> Append(h.train_loss, m.train_loss),
     train_acc |-> Append(h.train_acc, m.train_acc),
     val_loss |-> Append(h.val_loss, m.val_loss),
     val_acc |-> Append(h.val_acc, m.val_acc)]

\* for epoch in range(num_epochs): train_epoch, validate, scheduler.step,
\* history appends and the epoch summary
TrainAndValidate ==
    /\ main_pc = "loop"
    /\ epoch < train_cfg.num_epochs
    /\ \E m \in Measurements :
          /\ measurement' = m
          /\ measured' = Append(measured, m)
          /\ history' = AppendHistory(history, m)
    /\ model_state' = <<"epoch", epoch>>
    /\ main_pc' = "recorded"
    /\ UNCHANGED <<train_cfg, epoch, best_val_acc, patience_counter, completed,
                   events, evaluated, ckpt_file, trackerVars, meterVars, epochVars, laterVars>>

\* the range is exhausted
LoopExhausted ==
    /\ main_pc = "loop"
    /\ epoch >= train_cfg.num_epochs
    /\ main_pc' = "after_loop"
    /\ UNCHANGED <<train_cfg, epoch, history, measurement, best_val_acc,
                   patience_counter, model_state, completed, measured, events,
                   evaluated, ckpt_file, trackerVars, meterVars, epochVars, laterVars>>

\* if val_acc > best_val_acc: ... torch.save ... else: patience_counter += 1
SaveBestModel ==
    /\ main_pc = "recorded"
    /\ IF measurement.val_acc > best_val_acc
       THEN /\ best_val_acc' = measurement.val_acc
            /\ patience_counter' = 0
            /\ IF train_cfg.save_best_only
               THEN /\ ckpt_file' = TrainCheckpoint(epoch, model_state,
                                                    measurement.val_acc)
                    /\ events' = Append(events, Event("save", epoch, "train.main"))
               ELSE UNCHANGED <<ckpt_file, events>>
       ELSE /\ patience_counter' = patience_counter + 1
            /\ UNCHANGED <<best_val_acc, ckpt_file, events>>
    /\ main_pc' = "saved"
    /\ UNCHANGED <<train_cfg, epoch, history, measurement, model_state,
                   completed, measured, evaluated, trackerVars, meterVars, epochVars, laterVars>>

\* the early-stopping test with > in place of >=
EarlyStopping_Strict ==
    /\ main_pc = "saved"
    /\ completed' = completed + 1
    /\ IF patience_counter > train_cfg.early_stopping_patience
       THEN /\ main_pc' = "after_loop"
            /\ epoch' = epoch
       ELSE /\ main_pc' = "loop"
            /\ epoch' = epoch + 1
    /\ UNCHANGED <<train_cfg, history, measurement, best_val_acc,
                   patience_counter, model_state, measured, events, evaluated,
                   ckpt_file, trackerVars, meterVars, epochVars, laterVars>>

\* if patience_counter >= cfg.early_stopping_patience: break
EarlyStopping ==
    /\ main_pc = "saved"
    /\ completed' = completed + 1
    /\ IF patience_counter >= train_cfg.early_stopping_patience
       THEN /\ main_pc' = "after_loop"
            /\ epoch' = epoch
       ELSE /\ main_pc' = "loop"
            /\ epoch' = epoch + 1
    /\ UNCHANGED <<train_cfg, history, measurement, best_val_acc,
                   patience_counter, model_state, measured, events, evaluated,
                   ckpt_file, trackerVars, meterVars, epochVars, laterVars>>

\* if best_model_path.exists(): torch.load, load_state_dict,
\* checkpoint['epoch']
LoadBestModel ==
    /\ main_pc = "after_loop"
    /\ IF ckpt_file.exists
       THEN /\ events' = Append(events, Event("load", epoch, ckpt_file.writer))
            /\ model_state' = IF "model_state_dict" \in ckpt_file.keys
                              THEN ckpt_file.state ELSE model_state
            /\ main_pc' = IF {"model_state_dict", "epoch"} \subseteq ckpt_file.keys
                          THEN "loaded" ELSE "raised"
       ELSE /\ main_pc' = "loaded"
            /\ UNCHANGED <<events, model_state>>
    /\ UNCHANGED <<train_cfg, epoch, history, measurement, best_val_acc,
                   patience_counter, completed, measured, evaluated, ckpt_file,
                   trackerVars, meterVars, epochVars, laterVars>>

\* validate(model, test_loader, ...), predictions, metrics and reports
EvaluateOnTestSet ==
    /\ main_pc = "loaded"
    /\ evaluated' = model_state
    /\ events' = Append(events, Event("evaluate", epoch, "test_loader"))
    /\ main_pc' = "done"
    /\ UNCHANGED <<train_cfg, epoch, history, measurement, best_val_acc,
                   patience_counter, model_state, completed, measured,
                   ckpt_file, trackerVars, meterVars, epochVars, laterVars>>

TrackerIdle ==
    /\ tracker_class = "idle"
    /\ tracker_pc = "new"
    /\ cfg = [section |-> FALSE, keys |-> AllAbsent]
    /\ arg_backend = S_none
    /\ tracking_backend = S_empty
    /\ mlflow_run = "None"
    /\ wandb_run = "None"
    /\ avail = [b \in {"wandb", "mlflow"} |-> TRUE]
    /\ trackers = <<>>
    /\ attempted = {}
    /\ init_failed = {}
    /\ last = NoCall

MainIdle ==
    /\ main_pc = "idle"
    /\ train_cfg = [num_epochs |-> 0, early_stopping_patience |-> 0,
                    save_best_only |-> FALSE, tracking |-> {}]
    /\ epoch = 0
    /\ history = EmptyHistory
    /\ measurement = NoMeasurement
    /\ best_val_acc = 0
    /\ patience_counter = 0
    /\ model_state = <<"init", 0>>
    /\ completed = 0
    /\ measured = <<>>
    /\ events = <<>>
    /\ evaluated = <<"none", 0>>

\* main just before the epoch loop (lines 230-243)
InitMain ==
    /\ main_pc = "loop"
    /\ train_cfg \in TrainConfigs
    /\ ckpt_file \in {NoFile, StaleCheckpoint, WandbCheckpoint}
    /\ epoch = 0
    /\ history = EmptyHistory
    /\ measurement = NoMeasurement
    /\ best_val_acc = 0
    /\ patience_counter = 0
    /\ model_state = <<"init", 0>>
    /\ completed = 0
    /\ measured = <<>>
    /\ events = <<>>
    /\ evaluated = <<"none", 0>>


(***************************************************************************)
(* Properties of train.main (checked under SpecTrain)                      *)
(***************************************************************************)
EventsAt(kind) == {i \in 1..Len(events) : events[i].kind = kind}

\* the epochs whose "save best model" statement has been executed
Decided ==
    {e \in 0..(Len(measured) - 1) :
        e < completed \/ (e = completed /\ main_pc = "saved")}

RECURSIVE MaxOf(_)
MaxOf(S) ==
    IF S = {} THEN 0
    ELSE LET x == CHOOSE y \in S : TRUE
             m == MaxOf(S \ {x})
         IN IF x > m THEN x ELSE m

\* the best validation accuracy of the epochs before e (0.0 if none)
BestBefore(e) == MaxOf({measured[i].val_acc : i \in 1..e})

Improved(e) == measured[e + 1].val_acc > BestBefore(e)

\* C5: the scalars of every completed epoch are forwarded to every active
\* tracking backend, before that epoch's checkpoint is saved.
C5_ScalarsLoggedBeforeCheckpoint ==
    \A e \in Decided : \A b \in train_cfg.tracking :
        \E i \in EventsAt("log") :
            /\ events[i].epoch = e
            /\ events[i].who = b
            /\ \A j \in EventsAt("save") : events[j].epoch = e => i < j

\* C6: the checkpoint is written exactly once in every epoch that improves
\* on the best validation accuracy so far and in no other epoch, and it is
\* read exactly once, after the loop and before the test-set evaluation.
C6_WrittenPerImprovementReadOnce ==
    /\ \A e \in Decided :
          Cardinality({i \in EventsAt("save") : events[i].epoch = e}) =
              (IF Improved(e) THEN 1 ELSE 0)
    /\ main_pc = "done" =>
          /\ Cardinality(EventsAt("load")) = 1
          /\ \A i \in EventsAt("load") :
                /\ \A j \in EventsAt("save") : j < i
                /\ \A j \in EventsAt("evaluate") : i < j

AtEpochBoundary == main_pc \in {"loop", "after_loop", "loaded", "done", "raised"}

\* C8: at every epoch boundary, also the one reached by the early-stopping
\* break, the four history lists have the length of the number of epochs
\* completed, and entry i of each is what was measured in epoch i.
C8_HistoryIsParallel ==
    AtEpochBoundary =>
        /\ Len(history.train_loss) = completed
        /\ Len(history.train_acc) = completed
        /\ Len(history.val_loss) = completed
        /\ Len(history.val_acc) = completed
        /\ Len(measured) = completed
        /\ \A i \in 1..completed :
              /\ history.train_loss[i] = measured[i].train_loss
              /\ history.train_acc[i] = measured[i].train_acc
              /\ history.val_loss[i] = measured[i].val_loss
              /\ history.val_acc[i] = measured[i].val_acc

\* C8's case: early stopping broke the loop after two or more epochs,
\* before the configured number of epochs
C8_Witness ==
    /\ main_pc = "after_loop"
    /\ completed >= 2
    /\ completed < train_cfg.num_epochs
    /\ Len(history.val_acc) = completed
    /\ history.val_acc[1] # history.val_acc[2]

(***************************************************************************)
(* Properties of AverageMeter (SpecMeter) and of train_epoch (SpecEpoch)   *)
(***************************************************************************)
\* the operations train_epoch is to perform on a batch, in order
ExpectedTrace ==
    <<"forward", "loss", "zero_grad", "backward">> \o
    (IF clip_grad_norm # "None" THEN <<"clip">> ELSE <<>>) \o
    <<"step", "update">>

IsPrefix(s, t) == Len(s) <= Len(t) /\ SubSeq(t, 1, Len(s)) = s

RECURSIVE SumTo(_, _)
\* f[1] + ... + f[k]
SumTo(f, k) == IF k = 0 THEN 0 ELSE f[k] + SumTo(f, k - 1)

\* C9: on every batch train_epoch does forward and loss, zero_grad,
\* backward, the clipping iff clip_grad_norm is not None, one optimizer
\* step and then the running-average update weighted by the batch size, in
\* this order; every batch of the loader is processed and the optimizer is
\* stepped once per batch.
C9_BatchOrder ==
    (ep_mode = "train" /\ ep_pc # "idle") =>
        /\ IsPrefix(trace, ExpectedTrace)
        /\ (ep_pc = "iter" /\ batch > 0) => trace = ExpectedTrace
        /\ ep_pc = "iter" =>
              /\ optimizer_steps = batch
              /\ losses.count = SumTo(loader, batch)
              /\ losses.sum =
                    SumTo([i \in 1..batch |-> batch_losses[i] * loader[i]], batch)
        /\ ep_pc \in {"returned", "ZeroDivisionError"} =>
              /\ batch = Len(loader)
              /\ optimizer_steps = Len(loader)

\* C9's case: a loader of two batches trained with clipping, to the end
C9_Witness ==
    /\ ep_mode = "train"
    /\ clip_grad_norm # "None"
    /\ ep_pc = "returned"
    /\ Len(loader) = 2
    /\ optimizer_steps = 2
    /\ trace = ExpectedTrace

\* C10: with (v_i, n_i) the updates since the last reset or construction,
\* count = sum n_i, sum = sum v_i*n_i, avg = sum/count if count # 0 and 0
\* otherwise, val = the last v_i; with no update since, all four are 0.
C10_MeterIsWeightedMean ==
    LET k == Len(meter_log)
        ns == SumTo([i \in 1..k |-> meter_log[i].n], k)
        vns == SumTo([i \in 1..k |-> meter_log[i].val * meter_log[i].n], k)
    IN /\ meter.count = ns
       /\ meter.sum = vns
       /\ meter.val = IF k = 0 THEN 0 ELSE meter_log[k].val
       /\ IF ns # 0
          THEN /\ meter.avg.den > 0
               /\ meter.avg.num * ns = vns * meter.avg.den
          ELSE meter.avg = Zero

\* C10's case: update(1, 1) then update(0, 2): the mean is 1/3
C10_Witness ==
    /\ Len(meter_log) = 2
    /\ meter.count = 3
    /\ meter.sum = 1
    /\ meter.avg = [num |-> 1, den |-> 3]

(***************************************************************************)
(* Properties of the epoch loop and of the evaluated model (SpecTrain)     *)
(***************************************************************************)
AfterLoop == main_pc \in {"after_loop", "loaded", "done", "raised"}

\* the highest validation accuracy measured in this run
BestMeasured == MaxOf({measured[i].val_acc : i \in 1..Len(measured)})

\* the first epoch (counted from 0) that measured v
EarliestEpochWith(v) ==
    CHOOSE e \in 0..(Len(measured) - 1) :
        /\ measured[e + 1].val_acc = v
        /\ \A d \in 0..(e - 1) : measured[d + 1].val_acc # v

\* C22: the model evaluated on the test set is the best model of this run:
\* the checkpoint loaded after the loop was written by this run, in the
\* epoch with the highest validation accuracy, whatever the configuration.
C22_EvaluatesBestOfThisRun ==
    (main_pc = "done" /\ completed >= 1) =>
        /\ \E i \in EventsAt("load") : events[i].who = "train.main"
        /\ evaluated = <<"epoch", EarliestEpochWith(BestMeasured)>>

RECURSIVE Stale(_)
\* the number of consecutive epochs, ending with the n-th, whose validation
\* accuracy did not exceed the best before them
Stale(n) ==
    IF n = 0 THEN 0
    ELSE IF Improved(n - 1) THEN 0
    ELSE Stale(n - 1) + 1

\* C23: the loop runs at most num_epochs epochs; it stops after the first
\* epoch at whose end the number of consecutive epochs without a strict
\* improvement is at least early_stopping_patience, and runs num_epochs
\* epochs if there is no such epoch.
C23_StopsAtFirstStaleEpoch ==
    /\ completed <= train_cfg.num_epochs
    /\ AtEpochBoundary =>
          /\ patience_counter = Stale(completed)
          /\ \A n \in 1..(completed - 1) :
                Stale(n) < train_cfg.early_stopping_patience
    /\ main_pc = "loop" =>
          (completed = 0 \/ Stale(completed) < train_cfg.early_stopping_patience)
    /\ AfterLoop =>
          \/ completed = train_cfg.num_epochs
          \/ /\ completed >= 1
             /\ Stale(completed) >= train_cfg.early_stopping_patience

\* an improvement, a tie, then the break: two of three epochs with a
\* patience of 1
C23_Witness ==
    /\ main_pc = "after_loop"
    /\ train_cfg.num_epochs = 3
    /\ train_cfg.early_stopping_patience = 1
    /\ completed = 2
    /\ history.val_acc = <<1, 1>>
    /\ patience_counter = 1

\* C24: after every epoch best_val_acc is the maximum of 0.0 and the
\* recorded validation accuracies; with save_best_only, a checkpoint
\* written in this run holds best_val_acc and the earliest epoch that
\* attained it.
C24_BestIsMaxOfHistory ==
    AtEpochBoundary =>
        /\ best_val_acc = MaxOf({history.val_acc[i] : i \in 1..Len(history.val_acc)})
        /\ (/\ train_cfg.save_best_only
            /\ ckpt_file.exists
            /\ ckpt_file.writer = "train.main") =>
               /\ ckpt_file.val_acc = best_val_acc
               /\ ckpt_file.epoch = EarliestEpochWith(best_val_acc)

\* the second epoch set the best value, the third tied with it: the
\* checkpoint is still the one of the second epoch
C24_Witness ==
    /\ main_pc = "loop"
    /\ train_cfg.save_best_only
    /\ history.val_acc = <<1, 2, 2>>
    /\ best_val_acc = 2
    /\ ckpt_file.writer = "train.main"
    /\ ckpt_file.epoch = 1
    /\ ckpt_file.val_acc = 2

\* C25: for every loader, also one without batches, train_epoch and
\* validate return normally, never dividing by zero, with the accuracy
\* 100 * correct / total, 0 <= correct <= total, a value from 0 to 100.
C25_ReturnsAccuracyForEveryLoader ==
    /\ ep_pc # "ZeroDivisionError"
    /\ ep_pc = "returned" =>
          /\ 0 <= correct /\ correct <= total
          /\ ep_result.acc = Frac(100 * correct, total)
          /\ 0 <= ep_result.acc.num
          /\ ep_result.acc.num <= 100 * ep_result.acc.den

(***************************************************************************)
(* The serving applications: serve/app.py and src/app/main.py.  Every      *)
(* handler is a coroutine on one event loop: it runs without interruption  *)
(* up to its next await, so a handler is one action per stretch between    *)
(* awaits.  An exception is its message; an f-string is the tuple of its   *)
(* pieces.                                                                 *)
(***************************************************************************)
MaxRequests == 2
MaxFiles == 2

Requests == 1..MaxRequests

\* a Python dict as a set of <<key, value>> pairs
Keys(d) == {kv[1] : kv \in d}
Lookup(d, k, default) ==
    IF k \in Keys(d) THEN (CHOOSE kv \in d : kv[1] = k)[2] ELSE default
SetItem(d, k, v) == {kv \in d : kv[1] # k} \cup {<<k, v>>}

\* what torch.load and load_state_dict find at a path
FileStates == {"missing", "unreadable", "mismatch", "ckpt1", "ckpt2"}
ModelPaths == {"default", "other"}
FileAt(path) == IF path = "default" THEN model_file ELSE "ckpt_other"

\* the uploads: the content type the client sent and what the bytes hold
Upload(ct, data) == [content_type |-> ct, data |-> data]
Uploads ==
    { Upload("image/png", "RGB"), Upload("image/png", "RGBA"),
      Upload("image/png", "garbage"), Upload("text/plain", "garbage"),
      Upload("None", "RGB") }
ServeUploads == {u \in Uploads : u.content_type = "image/png"}
BatchUploads == {u \in Uploads : u.data # "RGBA"}
FileLists == UNION {[1..n -> BatchUploads] : n \in 0..MaxFiles}

\* file.content_type.startswith("image/"); None has no startswith
StartsWithImage(ct) ==
    CASE ct = "None" -> "AttributeError"
      [] ct \in {"image/png", "image/jpeg"} -> "yes"
      [] OTHER -> "no"

\* predict_single / predict on a decoded image either returns or raises
InferenceFaults == {"none", "inference failed"}

\* a request in flight: its handler's locals
NoRequest ==
    [endpoint |-> "none", pc |-> "idle", files |-> <<>>, i |-> 0,
     local_model |-> "None", results |-> <<>>, raised |-> <<>>]

\* no exception
NoExc == [stage |-> "none", msg |-> "none", file |-> 0]

\* the last exception raised in a handler
LastRaised(q) == IF q.raised = <<>> THEN NoExc ELSE q.raised[Len(q.raised)]

\* a response, with the request it answers, the last exception its handler
\* raised, the number of uploads and the number of entries of results
NoResponse ==
    [request |-> 0, endpoint |-> "none", status |-> 0, detail |-> <<>>,
     body |-> "none", source |-> 0, exc |-> NoExc, nfiles |-> 0,
     nresults |-> 0]

\* an exception raised at a stage of the handler, for file number f
Raised(stage, msg, f) == [stage |-> stage, msg |-> msg, file |-> f]

\* the response to request q
Respond(q, status, detail, body) ==
    [request |-> 0, endpoint |-> q.endpoint, status |-> status,
     detail |-> detail, body |-> body, source |-> 0, exc |-> LastRaised(q),
     nfiles |-> Len(q.files), nresults |-> Len(q.results)]

\* the handler of request r returns or raises: the response is sent
Finish(r, resp) ==
    /\ response' = [resp EXCEPT !.request = r]
    /\ reqs' = [reqs EXCEPT ![r] = NoRequest]

\* the handler of request r reaches an await
Await(r, q) ==
    /\ reqs' = [reqs EXCEPT ![r] = q]
    /\ UNCHANGED response

\* raise HTTPException(status_code=..., detail=f"<prefix>{str(e)}")
HTTPException_NoMessage(q, status, prefix, msg) ==
    Respond(q, status, <<prefix>>, "error")

HTTPException(q, status, prefix, msg) ==
    Respond(q, status, <<prefix, msg>>, "error")

\* an exception no handler catches: the server answers 500 on its own
Unhandled(q) == Respond(q, 500, <<"Internal Server Error">>, "error")

\* ---- serve/app.py ----

load_model_AlwaysStores(cache, path) ==
    LET f == FileAt(path) IN
    IF f = "missing" THEN
        [cache |-> cache, stored |-> 0, exc |-> "Model file not found"]
    ELSE IF f = "unreadable" THEN
        [cache |-> cache, stored |-> 0, exc |-> "invalid load key"]
    ELSE IF f = "mismatch" THEN
        [cache |-> cache, stored |-> 0, exc |-> "Error(s) in loading state_dict"]
    ELSE
        [cache |-> SetItem(SetItem(cache, "model", f), "config", f),
         stored |-> 1, exc |-> "none"]

\* load_model putting the model into the cache before load_state_dict
load_model_StoresModelFirst(cache, path) ==
    LET f == FileAt(path) IN
    IF "model" \in Keys(cache) THEN
        [cache |-> cache, stored |-> 0, exc |-> "none"]
    ELSE IF f = "missing" THEN
        [cache |-> cache, stored |-> 0, exc |-> "Model file not found"]
    ELSE IF f = "unreadable" THEN
        [cache |-> cache, stored |-> 0, exc |-> "invalid load key"]
    ELSE IF f = "mismatch" THEN
        [cache |-> SetItem(cache, "model", f), stored |-> 1,
         exc |-> "Error(s) in loading state_dict"]
    ELSE
        [cache |-> SetItem(SetItem(cache, "model", f), "config", f),
         stored |-> 1, exc |-> "none"]

\* load_model(model_path): the cache after the call, whether it stored, and
\* the exception it raised
load_model(cache, path) ==
    LET f == FileAt(path) IN
    IF "model" \in Keys(cache) THEN
        [cache |-> cache, stored |-> 0, exc |-> "none"]
    ELSE IF f = "missing" THEN
        [cache |-> cache, stored |-> 0, exc |-> "Model file not found"]
    ELSE IF f = "unreadable" THEN
        [cache |-> cache, stored |-> 0, exc |-> "invalid load key"]
    ELSE IF f = "mismatch" THEN
        [cache |-> cache, stored |-> 0, exc |-> "Error(s) in loading state_dict"]
    ELSE
        [cache |-> SetItem(SetItem(cache, "model", f), "config", f),
         stored |-> 1, exc |-> "none"]

\* what every serve/app.py step leaves alone
ServeRest == <<serve_app, model_file, model, temp_image, coreVars, serveOthers>>

\* @app.on_event("startup"): try load_model(), except Exception: print
startup_event ==
    /\ serve_app = "serve"
    /\ startup = "pending"
    /\ LET lm == load_model(MODEL_CACHE, "default") IN
        /\ MODEL_CACHE' = lm.cache
        /\ stores' = stores + lm.stored
    /\ startup' = "done"
    /\ UNCHANGED <<ServeRest, reqs, response>>

\* a direct call of load_model with any model_path
load_model_call ==
    /\ serve_app = "serve"
    /\ \E path \in ModelPaths :
        LET lm == load_model(MODEL_CACHE, path) IN
        /\ MODEL_CACHE' = lm.cache
        /\ stores' = stores + lm.stored
    /\ UNCHANGED <<ServeRest, startup, reqs, response>>

\* POST /predict up to "await file.read()"
predict ==
    /\ serve_app = "serve"
    /\ \E r \in Requests, u \in ServeUploads :
        /\ reqs[r] = NoRequest
        /\ LET lm == load_model(MODEL_CACHE, "default")
               q  == [NoRequest EXCEPT !.endpoint = "predict", !.files = <<u>>]
           IN
            /\ MODEL_CACHE' = lm.cache
            /\ stores' = stores + lm.stored
            /\ IF lm.exc # "none" THEN
                   Finish(r, HTTPException(
                       [q EXCEPT !.raised = <<Raised("load", lm.exc, 1)>>],
                       500, "Prediction error: ", lm.exc))
               ELSE
                   Await(r, [q EXCEPT !.pc = "reading",
                       !.local_model = Lookup(lm.cache, "model", "None")])
    /\ UNCHANGED <<ServeRest, startup>>

\* POST /predict from Image.open to the response
predict_after_read ==
    /\ serve_app = "serve"
    /\ \E r \in Requests, fault \in InferenceFaults :
        LET q == reqs[r]
            u == q.files[1]
        IN
        /\ q.endpoint = "predict"
        /\ q.pc = "reading"
        /\ IF u.data = "garbage" THEN
               Finish(r, HTTPException(
                   [q EXCEPT !.raised =
                       <<Raised("decode", "cannot identify image file", 1)>>],
                   500, "Prediction error: ", "cannot identify image file"))
           ELSE IF fault # "none" THEN
               Finish(r, HTTPException(
                   [q EXCEPT !.raised = <<Raised("inference", fault, 1)>>],
                   500, "Prediction error: ", fault))
           ELSE
               Finish(r, [Respond(q, 200, <<>>, q.local_model) EXCEPT !.source = r])
    /\ UNCHANGED <<ServeRest, startup, MODEL_CACHE, stores>>

\* GET /health
health_check ==
    /\ serve_app = "serve"
    /\ \E r \in Requests :
        /\ reqs[r] = NoRequest
        /\ Finish(r, Respond([NoRequest EXCEPT !.endpoint = "health"], 200, <<>>,
                       IF "model" \in Keys(MODEL_CACHE) THEN "model_loaded"
                       ELSE "model_not_loaded"))
    /\ UNCHANGED <<ServeRest, startup, MODEL_CACHE, stores>>

\* GET /model-info
model_info ==
    /\ serve_app = "serve"
    /\ \E r \in Requests :
        /\ reqs[r] = NoRequest
        /\ LET lm == IF "config" \notin Keys(MODEL_CACHE)
                     THEN load_model(MODEL_CACHE, "default")
                     ELSE [cache |-> MODEL_CACHE, stored |-> 0, exc |-> "none"]
               q  == [NoRequest EXCEPT !.endpoint = "model_info"]
           IN
            /\ MODEL_CACHE' = lm.cache
            /\ stores' = stores + lm.stored
            /\ IF lm.exc # "none" THEN
                   Finish(r, Unhandled(
                       [q EXCEPT !.raised = <<Raised("load", lm.exc, 0)>>]))
               ELSE
                   Finish(r, Respond(q, 200, <<>>,
                                     Lookup(lm.cache, "config", "unknown")))
    /\ UNCHANGED <<ServeRest, startup>>

\* ---- src/app/main.py ----

\* what every src/app/main.py request step leaves alone
AppRest == <<serve_app, startup, model_file, MODEL_CACHE, stores, coreVars, serveOthers>>

\* startup_event: initialize_model when the model file exists
main_startup_event ==
    /\ serve_app = "main"
    /\ startup = "pending"
    /\ IF model_file = "missing" THEN
           /\ startup' = "done"
           /\ UNCHANGED model
       ELSE IF model_file \in {"unreadable", "mismatch"} THEN
           /\ startup' = "failed"
           /\ UNCHANGED model
       ELSE
           /\ startup' = "done"
           /\ model' = model_file
    /\ UNCHANGED <<serve_app, model_file, MODEL_CACHE, stores, temp_image,
                   reqs, response, coreVars, serveOthers>>

\* the requests waiting at an await
InFlight == {r \in Requests : reqs[r] # NoRequest}

\* a batch is in flight: it is served alone
BatchInFlight ==
    \E r \in InFlight : reqs[r].endpoint = "predict_batch"

\* preprocess_image opening the temporary file before image.save wrote it
SaveThenOpen_OpenFirst(file, r) == [file |-> r, opened |-> file]

\* image.save(temp_path) of request r's image, then preprocess_image's
\* Image.open(temp_path): the file afterwards and the image opened
SaveThenOpen(file, r) == [file |-> r, opened |-> r]

\* POST /predict up to "await file.read()"
predict_image_api ==
    /\ serve_app = "main"
    /\ startup # "failed"
    /\ ~BatchInFlight
    /\ \E r \in Requests, u \in Uploads :
        /\ reqs[r] = NoRequest
        /\ LET q == [NoRequest EXCEPT !.endpoint = "predict", !.files = <<u>>] IN
           IF model = "None" THEN
               Finish(r, Respond(q, 503, <<"Model not loaded">>, "error"))
           ELSE IF StartsWithImage(u.content_type) = "AttributeError" THEN
               Finish(r, Unhandled([q EXCEPT !.raised =
                   <<Raised("validate", "no attribute startswith", 1)>>]))
           ELSE IF StartsWithImage(u.content_type) = "no" THEN
               Finish(r, Respond(q, 400, <<"File must be an image">>, "error"))
           ELSE Await(r, [q EXCEPT !.pc = "reading", !.local_model = model])
    /\ UNCHANGED <<AppRest, model, temp_image>>

\* POST /predict from Image.open to the response
predict_image_api_after_read ==
    /\ serve_app = "main"
    /\ \E r \in Requests, fault \in InferenceFaults, left \in {temp_image, 0} :
        LET q == reqs[r]
            u == q.files[1]
        IN
        /\ q.endpoint = "predict"
        /\ q.pc = "reading"
        /\ IF u.data = "garbage" THEN
               /\ left = temp_image
               /\ UNCHANGED temp_image
               /\ Finish(r, HTTPException(
                      [q EXCEPT !.raised =
                          <<Raised("decode", "cannot identify image file", 1)>>],
                      500, "Prediction failed: ", "cannot identify image file"))
           ELSE IF u.data = "RGBA" THEN
               \* image.save fails: the file is left as it was or removed
               /\ temp_image' = left
               /\ Finish(r, HTTPException(
                      [q EXCEPT !.raised =
                          <<Raised("decode", "cannot write mode RGBA as JPEG", 1)>>],
                      500, "Prediction failed: ", "cannot write mode RGBA as JPEG"))
           ELSE
               /\ left = temp_image
               /\ temp_image' = SaveThenOpen(temp_image, r).file
               /\ IF fault # "none" THEN
                      Finish(r, HTTPException(
                          [q EXCEPT !.raised = <<Raised("inference", fault, 1)>>],
                          500, "Prediction failed: ", fault))
                  ELSE
                      Finish(r, [Respond(q, 200, <<>>, q.local_model)
                                    EXCEPT !.source =
                                        SaveThenOpen(temp_image, r).opened])
    /\ UNCHANGED <<AppRest, model>>

\* one entry of results
Result(f, kind, msg) == [filename |-> f, kind |-> kind, error |-> msg]

\* POST /predict_batch up to the loop
predict_batch_api ==
    /\ serve_app = "main"
    /\ startup # "failed"
    /\ InFlight = {}
    /\ \E r \in Requests, fs \in FileLists :
        /\ reqs[r] = NoRequest
        /\ LET q == [NoRequest EXCEPT !.endpoint = "predict_batch", !.files = fs] IN
           IF model = "None" THEN
               Finish(r, Respond(q, 503, <<"Model not loaded">>, "error"))
           ELSE Await(r, [q EXCEPT !.pc = "loop", !.i = 1, !.local_model = model])
    /\ UNCHANGED <<AppRest, model, temp_image>>

\* for file in files: up to "await file.read()", or the return after the loop
predict_batch_next_file ==
    /\ serve_app = "main"
    /\ \E r \in Requests :
        LET q == reqs[r] IN
        /\ q.endpoint = "predict_batch"
        /\ q.pc = "loop"
        /\ IF q.i > Len(q.files) THEN
               Finish(r, Respond(q, 200, <<>>, "results"))
           ELSE IF StartsWithImage(q.files[q.i].content_type) = "AttributeError" THEN
               Finish(r, Unhandled([q EXCEPT !.raised = Append(q.raised,
                   Raised("validate", "no attribute startswith", q.i))]))
           ELSE IF StartsWithImage(q.files[q.i].content_type) = "no" THEN
               Await(r, [q EXCEPT !.results = Append(q.results,
                                      Result(q.i, "error", "Not an image file")),
                                  !.i = q.i + 1])
           ELSE Await(r, [q EXCEPT !.pc = "reading"])
    /\ UNCHANGED <<AppRest, model, temp_image>>

\* the try block of the loop body, from Image.open on
predict_batch_after_read ==
    /\ serve_app = "main"
    /\ \E r \in Requests, fault \in InferenceFaults :
        LET q == reqs[r]
            u == q.files[q.i]
            msg == IF u.data = "garbage" THEN "cannot identify image file"
                   ELSE fault
            stage == IF u.data = "garbage" THEN "decode" ELSE "inference"
        IN
        /\ q.endpoint = "predict_batch"
        /\ q.pc = "reading"
        /\ IF msg # "none" THEN
               Await(r, [q EXCEPT
                   !.results = Append(q.results, Result(q.i, "error", msg)),
                   !.raised = Append(q.raised, Raised(stage, msg, q.i)),
                   !.i = q.i + 1, !.pc = "loop"])
           ELSE
               Await(r, [q EXCEPT
                   !.results = Append(q.results, Result(q.i, "prediction", "none")),
                   !.i = q.i + 1, !.pc = "loop"])
    /\ UNCHANGED <<AppRest, model, temp_image>>

\* ---- the environment of serve/app.py ----

\* training writes, replaces or removes the checkpoint file
ReplaceModelFile ==
    /\ serve_app = "serve"
    /\ \E f \in FileStates \ {model_file} : model_file' = f
    /\ UNCHANGED <<serve_app, startup, MODEL_CACHE, stores, model, temp_image,
                   reqs, response, coreVars, serveOthers>>

ServeIdle ==
    /\ serve_app = "idle"
    /\ startup = "pending"
    /\ model_file = "missing"
    /\ MODEL_CACHE = {}
    /\ stores = 0
    /\ model = "None"
    /\ temp_image = 0
    /\ reqs = [r \in Requests |-> NoRequest]
    /\ response = NoResponse

InitServing ==
    /\ serve_app \in {"serve", "main"}
    /\ startup = "pending"
    /\ model_file \in FileStates
    /\ MODEL_CACHE = {}
    /\ stores = 0
    /\ model = "None"
    /\ temp_image = 0
    /\ reqs = [r \in Requests |-> NoRequest]
    /\ response = NoResponse

(***************************************************************************)
(* Properties of the serving applications                                  *)
(***************************************************************************)
DecodeOrInference(e) == e.stage \in {"decode", "inference"}

DetailContains(resp, msg) == \E j \in 1..Len(resp.detail) : resp.detail[j] = msg

\* C11 (as stated): in POST /predict of both applications and in POST
\* /predict_batch, an exception raised while decoding or classifying an
\* upload gives an HTTP 500 response whose detail contains its message.
C11_AnyExceptionIs500 ==
    DecodeOrInference(response.exc) =>
        response.status = 500 /\ DetailContains(response, response.exc.msg)

\* what the batch handler has recorded for the exceptions raised so far
ErrorsRecorded(q) ==
    \A j \in 1..Len(q.raised) :
        DecodeOrInference(q.raised[j]) =>
            /\ q.raised[j].file <= Len(q.results)
            /\ q.results[q.raised[j].file] =
                   Result(q.raised[j].file, "error", q.raised[j].msg)

\* C11 (amended): in POST /predict of both applications such an exception
\* gives an HTTP 500 response whose detail contains its message; in POST
\* /predict_batch it becomes the error field of that file's entry of
\* results, the loop goes on to the next file, and it is never the reason
\* of a 500 response.
C11_PredictIs500BatchRecordsError ==
    /\ (response.endpoint = "predict" /\ DecodeOrInference(response.exc)) =>
           /\ response.status = 500
           /\ DetailContains(response, response.exc.msg)
    /\ (response.endpoint = "predict_batch" /\ DecodeOrInference(response.exc)) =>
           response.status = 200
    /\ \A r \in Requests :
           reqs[r].endpoint = "predict_batch" =>
               /\ ErrorsRecorded(reqs[r])
               /\ reqs[r].i = Len(reqs[r].results) + 1

\* a /predict request was answered 500 for a failed inference, and a batch
\* now in flight has recorded a decoding error and gone on to its second file
C11_Witness ==
    /\ response.endpoint = "predict"
    /\ response.status = 500
    /\ response.detail = <<"Prediction failed: ", "inference failed">>
    /\ \E b \in Requests :
        /\ reqs[b].endpoint = "predict_batch"
        /\ reqs[b].results = <<Result(1, "error", "cannot identify image file")>>
        /\ reqs[b].i = 2
        /\ reqs[b].pc = "reading"

\* C12: in serve/app.py the model is stored in MODEL_CACHE at most once,
\* and once MODEL_CACHE contains "model" no step (startup hook, request,
\* direct load_model call with any path, change of the checkpoint file)
\* changes MODEL_CACHE; the model a /predict request holds is the cached one.
C12_CachePopulatedOnce ==
    /\ [](stores <= 1)
    /\ [](\A r \in Requests :
             (serve_app = "serve" /\ reqs[r].pc = "reading") =>
                 reqs[r].local_model = Lookup(MODEL_CACHE, "model", "None"))
    /\ [][("model" \in Keys(MODEL_CACHE)) => MODEL_CACHE' = MODEL_CACHE]_vars

\* the cache holds ckpt1 while the file on disk is ckpt2, the startup hook
\* has run, one /predict is waiting for its upload and a /model-info has been
\* answered from the cache
C12_Witness ==
    /\ serve_app = "serve"
    /\ startup = "done"
    /\ stores = 1
    /\ MODEL_CACHE = {<<"model", "ckpt1">>, <<"config", "ckpt1">>}
    /\ model_file = "ckpt2"
    /\ response.endpoint = "model_info"
    /\ response.body = "ckpt1"
    /\ \E r \in Requests :
        reqs[r].endpoint = "predict" /\ reqs[r].pc = "reading"


\* C26: in src/app/main.py every answer of POST /predict is computed from
\* the image uploaded in the same request, however the concurrent requests
\* interleave: what is read from /tmp/temp_image.jpg is what this request
\* wrote.
C26_PredictReadsOwnUpload ==
    (serve_app = "main" /\ response.endpoint = "predict" /\ response.status = 200) =>
        /\ response.source = response.request
        /\ temp_image # 0

\* request 2 was answered from its own image while request 1, which began
\* before that answer, is still waiting for its upload
C26_Witness ==
    /\ serve_app = "main"
    /\ response.endpoint = "predict"
    /\ response.status = 200
    /\ response.request = 2
    /\ response.source = 2
    /\ temp_image = 2
    /\ reqs[1].endpoint = "predict"
    /\ reqs[1].pc = "reading"

\* the entries of results of batch q so far: one per file handled, in upload
\* order, with the file's name; an error entry exactly for the files that
\* are no images or whose decoding or inference raised
EntriesInOrder(q) ==
    /\ q.i = Len(q.results) + 1
    /\ \A j \in 1..Len(q.results) :
        /\ q.results[j].filename = j
        /\ q.results[j].kind \in {"error", "prediction"}
        /\ q.results[j].kind = "error" <=>
              \/ StartsWithImage(q.files[j].content_type) # "yes"
              \/ \E k \in 1..Len(q.raised) : q.raised[k].file = j

\* C27: with a model loaded, POST /predict_batch answers with one entry per
\* uploaded file, in upload order and with the file's name; a file that is
\* no image or fails in decoding or inference gets an error entry and the
\* files after it are still classified.
C27_OneResultPerFile ==
    /\ \A r \in Requests :
          reqs[r].endpoint = "predict_batch" => EntriesInOrder(reqs[r])
    /\ (response.endpoint = "predict_batch" /\ response.status # 503) =>
          /\ response.status = 200
          /\ response.nresults = response.nfiles

\* C28: in serve/app.py a failed load_model leaves MODEL_CACHE as it was;
\* "model" and "config" are in MODEL_CACHE together or not at all; /health
\* reports model_loaded exactly when both are there; a request that finds
\* no model tries the load again.
C28_FailedLoadLeavesCacheUnchanged ==
    /\ []((("model" \in Keys(MODEL_CACHE)) <=> ("config" \in Keys(MODEL_CACHE)))
          /\ Keys(MODEL_CACHE) \subseteq {"model", "config"})
    /\ [][MODEL_CACHE' # MODEL_CACHE =>
             /\ MODEL_CACHE = {}
             /\ stores' = stores + 1
             /\ \E f \in {"ckpt1", "ckpt2", "ckpt_other"} :
                    MODEL_CACHE' = {<<"model", f>>, <<"config", f>>}]_vars
    /\ [][(response' # response /\ response'.exc.stage = "load") =>
             /\ MODEL_CACHE' = MODEL_CACHE
             /\ MODEL_CACHE = {}
             /\ model_file \in {"missing", "unreadable", "mismatch"}]_vars
    /\ [][(response' # response /\ response'.endpoint = "health") =>
             (response'.body = "model_loaded" <=>
                 {"model", "config"} \subseteq Keys(MODEL_CACHE'))]_vars
    /\ [][(/\ serve_app = "serve"
           /\ MODEL_CACHE = {}
           /\ model_file \in {"ckpt1", "ckpt2"}
           /\ \E r \in Requests :
                 /\ reqs[r] = NoRequest
                 /\ \/ reqs'[r].endpoint = "predict"
                    \/ response' # response /\ response'.request = r
                       /\ response'.endpoint \in {"predict", "model_info"}) =>
             MODEL_CACHE' = {<<"model", model_file>>, <<"config", model_file>>}]_vars

\* a /predict request failed on a state-dict mismatch and left the cache
\* empty; after the file was replaced a later request loaded the model and
\* now waits for its upload
C28_Witness ==
    /\ serve_app = "serve"
    /\ response.endpoint = "predict"
    /\ response.status = 500
    /\ response.exc = Raised("load", "Error(s) in loading state_dict", 1)
    /\ stores = 1
    /\ Keys(MODEL_CACHE) = {"model", "config"}
    /\ \E r \in Requests : reqs[r].pc = "reading" /\ reqs[r].local_model = "ckpt2"
(***************************************************************************)
(* SimpleCNN of src/models/model.py: the shapes of the tensors.  A tensor  *)
(* is its shape, a tuple of integers; a layer either returns a shape or    *)
(* raises RuntimeError.                                                    *)
(***************************************************************************)
MaxImageSize == 33
DefaultImageSize == 32

ImageSizes == 1..MaxImageSize
ChannelCounts == {1, 3}
ClassCounts == {10, 100}
BatchSizes == {4}

Ok(shape) == [ok |-> TRUE, shape |-> shape]
RuntimeError == [ok |-> FALSE, shape |-> <<>>]

\* nn.Conv2d(cin, cout, kernel_size=3, padding=1)
Conv2d(cin, cout, x) ==
    IF x[2] = cin /\ x[3] + 2 >= 3 /\ x[4] + 2 >= 3 /\ x[3] >= 1 /\ x[4] >= 1
    THEN Ok(<<x[1], cout, (x[3] + 2 - 3) + 1, (x[4] + 2 - 3) + 1>>)
    ELSE RuntimeError

\* nn.BatchNorm2d(c)
BatchNorm2d(c, x) == IF x[2] = c THEN Ok(x) ELSE RuntimeError

\* the output size of a pooling window of 2 with stride 2, rounding up
PoolOut_Ceil(n) == ((n - 2 + 1) \div 2) + 1

\* the output size of a pooling window of 2 with stride 2
PoolOut(n) == ((n - 2) \div 2) + 1

\* nn.MaxPool2d(2, 2)
MaxPool2d(x) ==
    IF PoolOut(x[3]) >= 1 /\ PoolOut(x[4]) >= 1
    THEN Ok(<<x[1], x[2], PoolOut(x[3]), PoolOut(x[4])>>)
    ELSE RuntimeError

\* x.view(x.size(0), -1)
View(x) == Ok(<<x[1], x[2] * x[3] * x[4]>>)

\* nn.Linear(nin, nout)
Linear(nin, nout, x) == IF x[2] = nin THEN Ok(<<x[1], nout>>) ELSE RuntimeError

\* the statements of forward, in order
ForwardLayers ==
    <<"conv1", "bn1", "relu", "pool", "conv2", "bn2", "relu", "pool",
      "conv3", "bn3", "relu", "pool", "view", "fc1", "relu", "dropout", "fc2">>

\* one statement of forward of model m on x
ApplyLayer(name, m, x) ==
    CASE name = "conv1" -> Conv2d(m.input_channels, 32, x)
      [] name = "bn1"   -> BatchNorm2d(32, x)
      [] name = "conv2" -> Conv2d(32, 64, x)
      [] name = "bn2"   -> BatchNorm2d(64, x)
      [] name = "conv3" -> Conv2d(64, 128, x)
      [] name = "bn3"   -> BatchNorm2d(128, x)
      [] name = "pool"  -> MaxPool2d(x)
      [] name = "view"  -> View(x)
      [] name = "fc1"   -> Linear(m.fc_input_size, 256, x)
      [] name = "fc2"   -> Linear(256, m.num_classes, x)
      [] OTHER          -> Ok(x)

NoModule == [num_classes |-> 0, input_channels |-> 0, fc_input_size |-> 0]

cnnRest == <<coreVars, cnnOthers>>

\* SimpleCNN(num_classes, input_channels, image_size): image_size is 32
\* when the caller passes none
SimpleCNN ==
    /\ cnn_pc = "new"
    /\ LET image_size == IF cnn_args.explicit THEN cnn_args.image_size
                         ELSE DefaultImageSize
           conv_output_size == image_size \div 8
       IN cnn' = [num_classes |-> cnn_args.num_classes,
                  input_channels |-> cnn_args.input_channels,
                  fc_input_size |-> 128 * conv_output_size * conv_output_size]
    /\ cnn_pc' = "built"
    /\ UNCHANGED <<cnn_args, x_shape, layer, cnnRest>>

\* forward(x): the next statement
forward ==
    /\ cnn_pc = "built"
    /\ layer < Len(ForwardLayers)
    /\ LET res == ApplyLayer(ForwardLayers[layer + 1], cnn, x_shape) IN
       IF res.ok THEN
           /\ x_shape' = res.shape
           /\ layer' = layer + 1
           /\ cnn_pc' = IF layer + 1 = Len(ForwardLayers) THEN "returned" ELSE "built"
       ELSE
           /\ cnn_pc' = "RuntimeError"
           /\ UNCHANGED <<x_shape, layer>>
    /\ UNCHANGED <<cnn, cnn_args, cnnRest>>

CnnIdle ==
    /\ cnn_pc = "idle"
    /\ cnn_args = [num_classes |-> 10, input_channels |-> 3, explicit |-> FALSE,
                   image_size |-> 0, input |-> <<>>]
    /\ cnn = NoModule
    /\ x_shape = <<>>
    /\ layer = 0

\* the arguments of the constructor and the input of forward: a square image
\* of 28 or 32 pixels or of the size the model was built for
InitCnn ==
    /\ cnn_pc = "new"
    /\ \E nc \in ClassCounts, ic \in ChannelCounts, s \in ImageSizes,
          e \in BOOLEAN, b \in BatchSizes, c \in ChannelCounts,
          hw \in {28, 32} \cup ImageSizes :
        /\ (~e) => s = DefaultImageSize
        /\ hw \in {28, 32, s}
        /\ cnn_args = [num_classes |-> nc, input_channels |-> ic, explicit |-> e,
                       image_size |-> s, input |-> <<b, c, hw, hw>>]
        /\ x_shape = <<b, c, hw, hw>>
    /\ cnn = NoModule
    /\ layer = 0

(***************************************************************************)
(* Properties of SimpleCNN                                                 *)
(***************************************************************************)
CnnFinished == cnn_pc \in {"returned", "RuntimeError"}

\* C13: SimpleCNN built with input_channels=1 and no image_size maps a
\* (batch, 1, 28, 28) input to (batch, num_classes): forward returns, and
\* the features left after three poolings are as many as fc1 takes.
C13_GrayscaleDefaultSizeForward ==
    (/\ CnnFinished
     /\ cnn_args.input_channels = 1
     /\ ~cnn_args.explicit
     /\ cnn_args.input[2] = 1 /\ cnn_args.input[3] = 28) =>
        /\ cnn_pc = "returned"
        /\ x_shape = <<cnn_args.input[1], cnn_args.num_classes>>

\* the model was built with image_size s and is given s x s images with the
\* channels it was built for
SquareCase ==
    /\ cnn_pc # "new"
    /\ cnn_args.explicit
    /\ cnn_args.input[2] = cnn_args.input_channels
    /\ cnn_args.input[3] = cnn_args.image_size

\* what forward must have computed by statement number layer
ShapesFollow ==
    LET s == cnn_args.image_size
        b == cnn_args.input[1]
    IN
    /\ cnn_pc # "RuntimeError"
    /\ layer = 12 => x_shape = <<b, 128, s \div 8, s \div 8>>
    /\ layer = 13 => x_shape = <<b, 128 * (s \div 8) * (s \div 8)>> /\ x_shape[2] = cnn.fc_input_size
    /\ cnn_pc = "returned" => x_shape = <<b, cnn_args.num_classes>>

\* C14 (as stated): for every image_size s, SimpleCNN built with image_size
\* s and given s x s input has spatial size s // 8 after the three poolings,
\* 128 * (s // 8)^2 flattened features, which is what fc1 takes, and returns
\* a (batch, num_classes) output.
C14_EveryImageSize ==
    SquareCase => ShapesFollow

\* C14 (amended): the same for every image_size s >= 8.
C14_ImageSizeAtLeast8 ==
    (SquareCase /\ cnn_args.image_size >= 8) => ShapesFollow

\* a model built for 28 x 28 grayscale images has returned (4, 10)
C14_Witness ==
    /\ SquareCase
    /\ cnn_args.image_size = 28
    /\ cnn_args.input_channels = 1
    /\ cnn.fc_input_size = 1152
    /\ cnn_pc = "returned"
    /\ x_shape = <<4, 10>>

(***************************************************************************)
(* experiment_tracking.ExperimentTracker as a context manager:             *)
(*   with ExperimentTracker(cfg, backend) as tracker: <block>              *)
(* The block calls the methods above and ends normally or by an exception. *)
(* The statement is the last use of the tracker.                           *)
(***************************************************************************)
NoWith == [pc |-> "none", target |-> "none", finishes |-> 0,
           block |-> "none", leaves |-> "none"]

BlockOutcomes == {"normal", "exception"}

\* __exit__ returning a true value: the exception of the block is dropped
Leaves_Suppressed(block, exit_value) == "normal"

\* what leaves the with statement: the exception of the block unless
\* __exit__ returned a true value
Leaves(block, exit_value) ==
    IF block = "exception" /\ exit_value # "None" THEN "normal" ELSE block

\* def __enter__(self): return self
__enter__ ==
    /\ tracker_class = "experiment_tracking"
    /\ tracker_pc = "ready"
    /\ with_stmt = NoWith
    /\ with_stmt' = [NoWith EXCEPT !.pc = "block", !.target = "self"]
    /\ UNCHANGED <<trackerVars, ckpt_file, mainVars, meterVars, epochVars,
                   withOthers>>

\* def __exit__(self, exc_type, exc_val, exc_tb): self.finish()
\* The method returns None.
__exit__ ==
    /\ tracker_class = "experiment_tracking"
    /\ tracker_pc = "ready"
    /\ with_stmt.pc = "block"
    /\ \E block \in BlockOutcomes, fm \in BOOLEAN, fw \in BOOLEAN :
        /\ last' = Call("finish", "-", "always", TRUE, <<"end_run">>,
                        "always", TRUE, <<"finish">>, fm, fw)
        /\ with_stmt' = [with_stmt EXCEPT
               !.pc = "left",
               !.finishes = with_stmt.finishes + 1,
               !.block = block,
               !.leaves = IF last'.returned = "raised" THEN "exception"
                          ELSE Leaves(block, "None")]
    /\ tracker_pc' = "exited"
    /\ UNCHANGED <<tracker_class, cfg, arg_backend, tracking_backend,
                   mlflow_run, wandb_run, avail, trackers, attempted,
                   init_failed, ckpt_file, mainVars, meterVars, epochVars,
                   withOthers>>

WithIdle == with_stmt = NoWith

(***************************************************************************)
(* Properties of a disabled tracker and of the context manager             *)
(***************************************************************************)
\* C15: with tracking disabled (no tracking section, no enabled key, or
\* enabled false) the constructor of experiment_tracking.ExperimentTracker,
\* with any backend, returns with no MLflow and no W&B run started, and
\* every log_params, log_metrics (with or without step) and finish call
\* after it returns normally without a call to either client.
C15_DisabledTrackerIsInert ==
    (/\ tracker_class = "experiment_tracking"
     /\ tracker_pc # "new"
     /\ ~TrackingEnabled(cfg)) =>
        /\ tracker_pc # "raised"
        /\ mlflow_run = "None"
        /\ wandb_run = "None"
        /\ last.op \in {"none", "log_params", "log_metrics", "finish"} =>
               (last.calls = <<>> /\ last.returned = "normal")

\* a tracker built for both backends from a configuration without a
\* tracking section has returned from log_metrics with a step
C15_Witness ==
    /\ tracker_class = "experiment_tracking"
    /\ tracker_pc = "ready"
    /\ ~cfg.section
    /\ Lower(arg_backend) = S_both
    /\ attempted = {"mlflow", "wandb"}
    /\ last.op = "log_metrics"
    /\ last.arg = "1"
    /\ last.returned = "normal"

\* C16: __enter__ returns the tracker itself; leaving the with block, by its
\* end or by an exception, calls finish() exactly once; that call ends every
\* run that was started (mlflow.end_run for the MLflow run, wandb.finish for
\* the W&B run, in this order) and no other; and what leaves the statement
\* is what left the block: an exception of the block is not suppressed.
C16_ExitFinishesOnce ==
    /\ with_stmt.pc # "none" => with_stmt.target = "self"
    /\ with_stmt.pc = "block" => with_stmt.finishes = 0
    /\ with_stmt.pc = "left" =>
           /\ with_stmt.finishes = 1
           /\ last.op = "finish"
           /\ last.returned = "normal"
           /\ last.calls =
                  (IF mlflow_run = "run" THEN <<<<"mlflow", "end_run">>>> ELSE <<>>)
                  \o (IF wandb_run = "run" THEN <<<<"wandb", "finish">>>> ELSE <<>>)
           /\ with_stmt.leaves = with_stmt.block

\* both runs were started, the block raised, finish ended both runs and the
\* exception left the statement
C16_Witness ==
    /\ with_stmt.pc = "left"
    /\ mlflow_run = "run"
    /\ wandb_run = "run"
    /\ with_stmt.block = "exception"
    /\ with_stmt.leaves = "exception"
    /\ last.calls = <<<<"mlflow", "end_run">>, <<"wandb", "finish">>>>

\* the tracking flag the MLflow section of a logging method reads
FlagOf(op) ==
    CASE op = "log_params"   -> "log_params"
      [] op = "log_metrics"  -> "log_metrics"
      [] op = "log_artifact" -> "log_artifacts"
      [] OTHER               -> "log_models"

\* C29: log_params, log_metrics, log_artifact and log_model are each gated
\* by one tracking flag for both backends: when the flag is false the call
\* reaches neither the MLflow nor the W&B client; with log_models false,
\* log_model uploads nothing.
C29_OneFlagGatesBothBackends ==
    (/\ tracker_class = "experiment_tracking"
     /\ last.op \in {"log_params", "log_metrics", "log_artifact", "log_model"}
     /\ ~Get(cfg, FlagOf(last.op), TRUE)) =>
        last.calls = <<>>

(***************************************************************************)
(* ExperimentTracker._flatten_dict.  A string is the tuple of its          *)
(* characters; a dict is the sequence of its <<key, value>> items in       *)
(* insertion order; a value is a record: a leaf with its type and its      *)
(* string form, or a dict with its items.                                  *)
(***************************************************************************)
MaxDepth == 2

Leaf(type, val) == [type |-> type, val |-> val, items |-> <<>>]
DictValue(items) == [type |-> "dict", val |-> "", items |-> items]

\* isinstance(v, dict)
IsDict(v) == v.type = "dict"

\* the keys and the leaves the inputs are built from: "a", "b", "a.b" and
\* "" at the top level, "a" and "b" below it; the int 1 and the list [1, 2]
NestedKeys == {<<"a">>, <<"b">>}
FlatKeys == NestedKeys \cup {<<"a", ".", "b">>, <<>>}
FlatLeaves == {Leaf("int", "1"), Leaf("list", "[1, 2]")}

\* the dicts of at most one item with a key in K and a value in V
Items1(K, V) == {<<>>} \cup {<<<<k, v>>>> : k \in K, v \in V}

\* the dicts of at most two items with keys in K and values in V
Items2(K, V) ==
    Items1(K, V) \cup
    {<<<<k[1], v1>>, <<k[2], v2>>>> :
        k \in {kk \in K \X K : kk[1] # kk[2]}, v1 \in V, v2 \in V}

\* the nested dicts of depth at most d
RECURSIVE NestedDicts(_)
NestedDicts(d) ==
    IF d = 0 THEN {}
    ELSE {DictValue(e) : e \in Items1(NestedKeys, FlatLeaves \cup NestedDicts(d - 1))}

FlattenInputs == Items2(FlatKeys, FlatLeaves \cup NestedDicts(MaxDepth))

\* if not isinstance(v, (int, float, str, bool, type(None))): v = str(v)
\* with str applied to every value
Stringify_Always(v) == Leaf("str", v.val)

\* if not isinstance(v, (int, float, str, bool, type(None))): v = str(v)
Stringify(v) ==
    IF v.type \in {"int", "float", "str", "bool", "NoneType"} THEN v
    ELSE Leaf("str", v.val)

\* dict(items): a later item replaces the value of an earlier one with the
\* same key, in the earlier item's place
RECURSIVE DictOf(_)
DictOf(items) ==
    IF items = <<>> THEN <<>>
    ELSE LET n    == Len(items)
             rest == DictOf(SubSeq(items, 1, n - 1))
             it   == items[n]
         IN IF \E i \in 1..Len(rest) : rest[i][1] = it[1]
            THEN [i \in 1..Len(rest) |->
                     IF rest[i][1] = it[1] THEN it ELSE rest[i]]
            ELSE Append(rest, it)

\* f"{parent_key}{sep}{k}" if parent_key else k
NewKey(parent_key, sep, k) ==
    IF parent_key # <<>> THEN parent_key \o sep \o k ELSE k

\* _flatten_dict(d, parent_key, sep): the loop over d.items(), then dict(items)
RECURSIVE FlattenItems(_, _, _)
FlattenItems(d, parent_key, sep) ==
    IF d = <<>> THEN <<>>
    ELSE LET k       == d[1][1]
             v       == d[1][2]
             new_key == NewKey(parent_key, sep, k)
             items   == IF IsDict(v)
                        THEN DictOf(FlattenItems(v.items, new_key, sep))
                        ELSE <<<<new_key, Stringify(v)>>>>
         IN items \o FlattenItems(Tail(d), parent_key, sep)

flatten_dict(d, parent_key, sep) == DictOf(FlattenItems(d, parent_key, sep))

\* tracker._flatten_dict(nested_dict)
_flatten_dict ==
    /\ flat_pc = "call"
    /\ flat_out' = flatten_dict(flat_in, <<>>, <<".">>)
    /\ flat_pc' = "returned"
    /\ UNCHANGED <<flat_in, coreVars, flatOthers>>

FlatIdle ==
    /\ flat_pc = "idle"
    /\ flat_in = <<>>
    /\ flat_out = <<>>

InitFlat ==
    /\ flat_pc = "call"
    /\ flat_in \in FlattenInputs
    /\ flat_out = <<>>

(***************************************************************************)
(* Properties of _flatten_dict                                             *)
(***************************************************************************)
\* the leaves of d, each with the sequence of keys that leads to it
RECURSIVE LeafPaths(_, _)
LeafPaths(d, path) ==
    UNION {IF IsDict(d[i][2])
           THEN LeafPaths(d[i][2].items, Append(path, d[i][1]))
           ELSE {<<Append(path, d[i][1]), d[i][2]>>} : i \in 1..Len(d)}

\* ".".join(path)
RECURSIVE JoinPath(_)
JoinPath(path) ==
    IF Len(path) = 1 THEN path[1]
    ELSE JoinPath(SubSeq(path, 1, Len(path) - 1)) \o <<".">> \o path[Len(path)]

\* the value a leaf is to be stored as
Stored(v) ==
    IF v.type \in {"int", "float", "str", "bool", "NoneType"} THEN v
    ELSE [v EXCEPT !.type = "str"]

\* one entry per leaf, under the joined key, and no other entry
OneEntryPerLeaf ==
    LET leaves == LeafPaths(flat_in, <<>>) IN
    /\ Len(flat_out) = Cardinality(leaves)
    /\ \A lf \in leaves :
           \E i \in 1..Len(flat_out) :
               flat_out[i] = <<JoinPath(lf[1]), Stored(lf[2])>>
    /\ \A i \in 1..Len(flat_out) :
           \E lf \in leaves : flat_out[i] = <<JoinPath(lf[1]), Stored(lf[2])>>

\* every key of d, at every depth
RECURSIVE AllKeys(_)
AllKeys(d) ==
    UNION {{d[i][1]} \cup (IF IsDict(d[i][2]) THEN AllKeys(d[i][2].items) ELSE {}) :
           i \in 1..Len(d)}

\* the key is not empty and does not contain the separator
PlainKey(k) == k # <<>> /\ \A i \in 1..Len(k) : k[i] # "."

\* C17 (as stated): for every nested dict with string keys, the result of
\* _flatten_dict has exactly one entry per leaf, under the key that joins
\* the keys on the leaf's path with ".", holding the leaf itself when it is
\* an int, float, str, bool or None and its string form otherwise, and has
\* no other entry.
C17_FlattenEveryDict ==
    flat_pc = "returned" => OneEntryPerLeaf

\* C17 (amended): the same for every nested dict whose keys, at every depth,
\* are non-empty strings that do not contain ".".
C17_FlattenPlainKeys ==
    (flat_pc = "returned" /\ \A k \in AllKeys(flat_in) : PlainKey(k)) =>
        OneEntryPerLeaf

\* {"a": {"b": {"a": [1, 2]}}, "b": 1} was flattened to
\* {"a.b.a": "[1, 2]", "b": 1}
C17_Witness ==
    /\ flat_pc = "returned"
    /\ flat_in = <<<<<<"a">>, DictValue(<<<<<<"b">>,
                       DictValue(<<<<<<"a">>, Leaf("list", "[1, 2]")>>>>)>>>>)>>,
                   <<<<"b">>, Leaf("int", "1")>>>>
    /\ flat_out = <<<<<<"a", ".", "b", ".", "a">>, Leaf("str", "[1, 2]")>>,
                    <<<<"b">>, Leaf("int", "1")>>>>

(***************************************************************************)
(* load_cifar10 / load_mnist of src/data/make_dataset.py and the use main  *)
(* makes of their loaders.  A sample is its index in the training set;     *)
(* val_split is a fraction <<numerator, denominator>>.                     *)
(***************************************************************************)
MaxSamples == 4
MaxPasses == 2

\* val_split: 0, 0.1, 0.25, 0.5 and 1.0
SplitFractions == {<<0, 100>>, <<10, 100>>, <<25, 100>>, <<50, 100>>, <<100, 100>>}
LoaderBatchSizes == {1, 2}

\* int(x) of the quotient a / b: truncation towards zero
IntOf(a, b) == IF a >= 0 THEN a \div b ELSE -((-a) \div b)

\* torch.randperm(n): any order of the n indices
Randperms(n) == {p \in [1..n -> 1..n] : \A i, j \in 1..n : p[i] = p[j] => i = j}

\* random_split handing the whole dataset to the training subset
random_split_Overlapping(perm, train_size, val_size) ==
    [train |-> perm,
     val   |-> SubSeq(perm, train_size + 1, train_size + val_size)]

\* random_split(dataset, [train_size, val_size]) with the permutation perm:
\* the first train_size indices, then the next val_size
random_split(perm, train_size, val_size) ==
    [train |-> SubSeq(perm, 1, train_size),
     val   |-> SubSeq(perm, train_size + 1, train_size + val_size)]

Range(s) == {s[i] : i \in 1..Len(s)}

splitRest == <<coreVars, splitOthers>>

\* load_cifar10 / load_mnist: sizes, random_split, the three loaders
load_data ==
    /\ split_pc = "start"
    /\ \E perm \in Randperms(n_samples) :
        LET val_size   == IntOf(n_samples * val_split[1], val_split[2])
            train_size == n_samples - val_size
            parts      == random_split(perm, train_size, val_size)
        IN /\ train_indices' = parts.train
           /\ val_indices' = parts.val
           /\ remaining' = Range(parts.train)
    /\ split_pc' = "train_epoch"
    /\ UNCHANGED <<n_samples, val_split, loader_batch_size, stepped, validated,
                   passes, splitRest>>

\* train_epoch: the next batch of train_loader (shuffle=True), on which
\* optimizer.step() is executed; after the last batch, validate follows
train_batch ==
    /\ split_pc = "train_epoch"
    /\ IF remaining = {} THEN
           /\ split_pc' = "validate"
           /\ remaining' = Range(val_indices)
           /\ UNCHANGED stepped
       ELSE
           \E b \in SUBSET remaining :
               /\ Cardinality(b) =
                      IF Cardinality(remaining) < loader_batch_size
                      THEN Cardinality(remaining) ELSE loader_batch_size
               /\ stepped' = stepped \cup b
               /\ remaining' = remaining \ b
               /\ UNCHANGED split_pc
    /\ UNCHANGED <<n_samples, val_split, loader_batch_size, train_indices,
                   val_indices, validated, passes, splitRest>>

\* the samples of the next batch of val_loader (shuffle=False)
NextValBatch ==
    LET todo == SelectSeq(val_indices, LAMBDA s : s \in remaining)
        k    == IF Len(todo) < loader_batch_size THEN Len(todo)
                ELSE loader_batch_size
    IN {todo[i] : i \in 1..k}

\* validate: the next batch of val_loader, under torch.no_grad(), without
\* optimizer; after the last batch the next epoch starts
validate_batch ==
    /\ split_pc = "validate"
    /\ IF remaining = {} THEN
           /\ passes' = passes + 1
           /\ split_pc' = IF passes + 1 < MaxPasses THEN "train_epoch" ELSE "done"
           /\ remaining' = IF passes + 1 < MaxPasses THEN Range(train_indices) ELSE {}
           /\ UNCHANGED validated
       ELSE
           /\ validated' = validated \cup NextValBatch
           /\ remaining' = remaining \ NextValBatch
           /\ UNCHANGED <<split_pc, passes>>
    /\ UNCHANGED <<n_samples, val_split, loader_batch_size, train_indices,
                   val_indices, stepped, splitRest>>

SplitIdle ==
    /\ split_pc = "idle"
    /\ n_samples = 0
    /\ val_split = <<0, 100>>
    /\ loader_batch_size = 1
    /\ train_indices = <<>>
    /\ val_indices = <<>>
    /\ remaining = {}
    /\ stepped = {}
    /\ validated = {}
    /\ passes = 0

InitSplitting ==
    /\ split_pc = "start"
    /\ n_samples \in 0..MaxSamples
    /\ val_split \in SplitFractions
    /\ loader_batch_size \in LoaderBatchSizes
    /\ train_indices = <<>>
    /\ val_indices = <<>>
    /\ remaining = {}
    /\ stepped = {}
    /\ validated = {}
    /\ passes = 0

MaxLabels == 3

ClassLabels == {0, 1, 2}
Averages == {"macro", "micro", "weighted"}
LabelArrays == UNION {[1..n -> ClassLabels] : n \in 1..MaxLabels}

FracAdd(f, g) == Frac(f.num * g.den + g.num * f.den, f.den * g.den)
FracMul(f, g) == Frac(f.num * g.num, f.den * g.den)
FracLeq(f, g) == f.num * g.den <= g.num * f.den

RECURSIVE FracSum(_, _)
FracSum(S, f) ==
    IF S = {} THEN Zero
    ELSE LET c == CHOOSE c \in S : TRUE
         IN FracAdd(f[c], FracSum(S \ {c}, f))

\* a quotient of counts with zero_division=0
Divide(n, d) == IF d = 0 THEN Zero ELSE Frac(n, d)

CountOf(y, c) == Cardinality({i \in DOMAIN y : y[i] = c})
TruePositives(y_true, y_pred, c) ==
    Cardinality({i \in DOMAIN y_true : y_true[i] = c /\ y_pred[i] = c})

\* unique_labels(y_true, y_pred)
PresentLabels(y_true, y_pred) ==
    {y_true[i] : i \in DOMAIN y_true} \cup {y_pred[i] : i \in DOMAIN y_pred}

\* the score of one class: tp over the given count of the class
\* kind: "precision" (over the predicted), "recall" (over the true),
\* "f1" (2 tp over predicted + true)
ClassScore(kind, y_true, y_pred, c) ==
    LET tp == TruePositives(y_true, y_pred, c)
    IN CASE kind = "precision" -> Divide(tp, CountOf(y_pred, c))
         [] kind = "recall"    -> Divide(tp, CountOf(y_true, c))
         [] OTHER -> Divide(2 * tp, CountOf(y_pred, c) + CountOf(y_true, c))

\* precision_score / recall_score / f1_score with the given average
Averaged(kind, y_true, y_pred, avg) ==
    LET present == PresentLabels(y_true, y_pred)
        score == [c \in present |-> ClassScore(kind, y_true, y_pred, c)]
        tps == Cardinality({i \in DOMAIN y_true : y_true[i] = y_pred[i]})
        weighted == [c \in present |->
                        FracMul(Frac(CountOf(y_true, c), 1), score[c])]
    IN CASE avg = "macro" ->
              FracMul(FracSum(present, score), Frac(1, Cardinality(present)))
         [] avg = "weighted" ->
              FracMul(FracSum(present, weighted), Frac(1, Len(y_true)))
         [] OTHER ->
              \* micro: the counts are summed over the classes first
              IF kind = "f1" THEN Divide(2 * tps, Len(y_pred) + Len(y_true))
              ELSE Divide(tps, Len(y_true))

\* accuracy_score counting the positions that differ
accuracy_score_Errors(y_true, y_pred) ==
    Frac(Cardinality({i \in DOMAIN y_true : y_true[i] # y_pred[i]}), Len(y_true))

accuracy_score(y_true, y_pred) ==
    Frac(Cardinality({i \in DOMAIN y_true : y_true[i] = y_pred[i]}), Len(y_true))

precision_score(y_true, y_pred, avg) == Averaged("precision", y_true, y_pred, avg)
recall_score(y_true, y_pred, avg) == Averaged("recall", y_true, y_pred, avg)
f1_score(y_true, y_pred, avg) == Averaged("f1", y_true, y_pred, avg)

metricsRest == <<coreVars, metricsOthers>>

calculate_metrics ==
    /\ metrics_pc = "called"
    /\ metrics' = [k \in {"accuracy", "precision", "recall", "f1_score"} |->
                     CASE k = "accuracy"  -> accuracy_score(labels, predictions)
                       [] k = "precision" -> precision_score(labels, predictions, average)
                       [] k = "recall"    -> recall_score(labels, predictions, average)
                       [] OTHER           -> f1_score(labels, predictions, average)]
    /\ metrics_pc' = "returned"
    /\ UNCHANGED <<predictions, labels, average, metricsRest>>

MetricsIdle ==
    /\ metrics_pc = "idle"
    /\ predictions = <<>>
    /\ labels = <<>>
    /\ average = "macro"
    /\ metrics = <<>>

InitMetrics ==
    /\ metrics_pc = "called"
    /\ predictions \in LabelArrays
    /\ labels \in LabelArrays
    /\ Len(predictions) = Len(labels)
    /\ average \in Averages
    /\ metrics = <<>>

(***************************************************************************)
(* Properties of calculate_metrics                                         *)
(***************************************************************************)
One == Frac(1, 1)
InUnitInterval(f) == FracLeq(Zero, f) /\ FracLeq(f, One)

\* C19: the returned dict has exactly the keys accuracy, precision, recall
\* and f1_score; accuracy is the fraction of positions where prediction
\* equals label; identical arrays give 1.0 four times; arrays that differ
\* at every position give accuracy 0.0; precision, recall and f1_score are
\* in [0, 1].
C19_MetricsContract ==
    metrics_pc = "returned" =>
        LET n    == Len(labels)
            same == {i \in 1..n : predictions[i] = labels[i]}
        IN /\ DOMAIN metrics = {"accuracy", "precision", "recall", "f1_score"}
           /\ metrics["accuracy"].num * n = Cardinality(same) * metrics["accuracy"].den
           /\ predictions = labels => \A k \in DOMAIN metrics : metrics[k] = One
           /\ same = {} => metrics["accuracy"] = Zero
           /\ \A k \in {"precision", "recall", "f1_score"} : InUnitInterval(metrics[k])

\* two of three positions right, with a class that is predicted but never
\* true: accuracy 2/3, macro precision (1/2 + 1 + 0) / 3
C19_Witness ==
    /\ metrics_pc = "returned"
    /\ predictions = <<0, 1, 0>>
    /\ labels = <<0, 1, 2>>
    /\ average = "macro"
    /\ metrics["accuracy"] = Frac(2, 3)
    /\ metrics["precision"] = Frac(1, 2)
    /\ metrics["recall"] = Frac(2, 3)

(***************************************************************************)
(* scripts/train_with_tracking.py: the launcher of the training script.    *)
(***************************************************************************)
\* the return codes of the training subprocess: 0, a Python error (1), a
\* usage error (2), the largest exit code (255), and the negative codes
\* subprocess reports for a child killed by SIGKILL (-9) or SIGTERM (-15)
ReturnCodes == {0, 1, 2, 255, -9, -15}

TrackingModules == {"mlflow", "wandb"}
EnvironKeys == {"MLFLOW_TRACKING_URI", "WANDB_API_KEY"}

\* ./mlruns before the launcher starts
MlrunsStates == {"absent", "directory", "file"}

NoChild == [state |-> "not started", returncode |-> 0]

\* the exit status of a process that calls sys.exit(code) with an int
ExitStatus(code) == code % 256

\* main returning 1 for every failure of the subprocess
MainReturns_One(proc) ==
    CASE proc.state = "interrupted" -> 130
      [] proc.returncode # 0        -> 1
      [] OTHER                       -> 0

\* the value main returns after subprocess.run(train_cmd, check=True):
\* CalledProcessError for a non-zero return code, KeyboardInterrupt
MainReturns(proc) ==
    CASE proc.state = "interrupted" -> 130
      [] proc.returncode # 0        -> proc.returncode
      [] OTHER                       -> 0

launchRest == <<coreVars, launchOthers>>

\* check_dependencies: import mlflow, import wandb, ImportError passed over
check_dependencies ==
    /\ launch_pc = "main"
    /\ deps' = [d \in TrackingModules |-> d \in installed]
    /\ launch_pc' = "setup_environment"
    /\ UNCHANGED <<installed, environ, mlruns, runs, child, exit_status,
                   uncaught, launchRest>>

\* setup_environment; Path.mkdir(exist_ok=True) raises FileExistsError when
\* ./mlruns is not a directory, which nothing in main catches
setup_environment ==
    /\ launch_pc = "setup_environment"
    /\ IF "MLFLOW_TRACKING_URI" \in environ THEN
           /\ launch_pc' = "subprocess.run"
           /\ UNCHANGED <<environ, mlruns, exit_status, uncaught>>
       ELSE IF mlruns = "file" THEN
           /\ uncaught' = "FileExistsError"
           /\ exit_status' = 1
           /\ launch_pc' = "exited"
           /\ UNCHANGED <<environ, mlruns>>
       ELSE
           /\ mlruns' = "directory"
           /\ environ' = environ \cup {"MLFLOW_TRACKING_URI"}
           /\ launch_pc' = "subprocess.run"
           /\ UNCHANGED <<exit_status, uncaught>>
    /\ UNCHANGED <<installed, deps, runs, child, launchRest>>

\* subprocess.run(train_cmd, check=True) starts the training script
subprocess_run ==
    /\ launch_pc = "subprocess.run"
    /\ runs' = runs + 1
    /\ child' = [state |-> "running", returncode |-> 0]
    /\ launch_pc' = "waiting"
    /\ UNCHANGED <<installed, deps, environ, mlruns, exit_status, uncaught,
                   launchRest>>

\* the subprocess ends with some return code; main returns and
\* sys.exit(main()) ends the launcher
subprocess_returns ==
    /\ launch_pc = "waiting"
    /\ \E rc \in ReturnCodes :
        /\ child' = [state |-> "exited", returncode |-> rc]
        /\ exit_status' = ExitStatus(MainReturns(child'))
    /\ launch_pc' = "exited"
    /\ UNCHANGED <<installed, deps, environ, mlruns, runs, uncaught, launchRest>>

\* Ctrl-C while the launcher waits for the subprocess
KeyboardInterrupt ==
    /\ launch_pc = "waiting"
    /\ child' = [state |-> "interrupted", returncode |-> 0]
    /\ exit_status' = ExitStatus(MainReturns(child'))
    /\ launch_pc' = "exited"
    /\ UNCHANGED <<installed, deps, environ, mlruns, runs, uncaught, launchRest>>

LaunchIdle ==
    /\ launch_pc = "idle"
    /\ installed = {}
    /\ deps = <<>>
    /\ environ = {}
    /\ mlruns = "absent"
    /\ runs = 0
    /\ child = NoChild
    /\ exit_status = -1
    /\ uncaught = "none"

InitLaunch ==
    /\ launch_pc = "main"
    /\ installed \in SUBSET TrackingModules
    /\ deps = <<>>
    /\ environ \in SUBSET EnvironKeys
    /\ mlruns \in MlrunsStates
    /\ runs = 0
    /\ child = NoChild
    /\ exit_status = -1
    /\ uncaught = "none"

(***************************************************************************)
(* Properties of the launcher                                              *)
(***************************************************************************)
ChildFailed == child.state = "exited" /\ child.returncode # 0
ChildSucceeded == child.state = "exited" /\ child.returncode = 0

MaxSide == 8

\* the height and the width of an input image
Sides == (1..MaxSide) \cup {32}

ModelNames == {"simple_cnn", "resnet", "SimpleCNN", "ResNet", "resnet18", "cnn",
               "invalid_model", ""}

\* nn.Conv2d(cin, cout, kernel_size=k, stride=s, padding=p)
Conv2dStride(cin, cout, k, s, p, x) ==
    IF x[2] = cin /\ x[3] >= 1 /\ x[4] >= 1 /\ x[3] + 2 * p >= k /\ x[4] + 2 * p >= k
    THEN Ok(<<x[1], cout, ((x[3] + 2 * p - k) \div s) + 1,
                          ((x[4] + 2 * p - k) \div s) + 1>>)
    ELSE RuntimeError

\* ResidualBlock(in_channels, out_channels, stride)
ResidualBlock(in_channels, out_channels, stride) ==
    [in_channels |-> in_channels, out_channels |-> out_channels, stride |-> stride,
     shortcut |-> IF stride # 1 \/ in_channels # out_channels THEN "conv1x1"
                  ELSE "identity"]

\* the main path of block b: conv1, bn1, relu, conv2, bn2
MainPath(b, x) ==
    LET c1 == Conv2dStride(b.in_channels, b.out_channels, 3, b.stride, 1, x)
    IN IF ~c1.ok THEN RuntimeError
       ELSE Conv2dStride(b.out_channels, b.out_channels, 3, 1, 1, c1.shape)

\* a shortcut whose 1x1 convolution has stride 1
Shortcut_StrideOne(b, x) ==
    IF b.shortcut = "identity" THEN Ok(x)
    ELSE Conv2dStride(b.in_channels, b.out_channels, 1, 1, 0, x)

\* self.shortcut(x): nn.Sequential() or the 1x1 convolution and its norm
Shortcut(b, x) ==
    IF b.shortcut = "identity" THEN Ok(x)
    ELSE Conv2dStride(b.in_channels, b.out_channels, 1, b.stride, 0, x)

\* ResidualBlock.forward: out += self.shortcut(x) needs equal shapes
BlockForward(b, x) ==
    LET main == MainPath(b, x)
        sc   == Shortcut(b, x)
    IN IF main.ok /\ sc.ok /\ main.shape = sc.shape THEN main ELSE RuntimeError

\* ResNet._make_layer: the blocks of one layer, the first with the stride
make_layer(in_channels, out_channels, num_blocks, stride) ==
    [i \in 1..num_blocks |->
        IF i = 1 THEN ResidualBlock(in_channels, out_channels, stride)
        ELSE ResidualBlock(out_channels, out_channels, 1)]

\* ResNet(num_classes, input_channels)
ResNet(num_classes, input_channels) ==
    [class |-> "ResNet", num_classes |-> num_classes,
     input_channels |-> input_channels,
     blocks |-> make_layer(64, 64, 2, 1) \o make_layer(64, 128, 2, 2)
                \o make_layer(128, 256, 2, 2),
     fc_input_size |-> 256]

\* SimpleCNN(num_classes, input_channels, image_size)
NewSimpleCNN(num_classes, input_channels, image_size) ==
    [class |-> "SimpleCNN", num_classes |-> num_classes,
     input_channels |-> input_channels,
     blocks |-> <<>>,
     fc_input_size |-> 128 * (image_size \div 8) * (image_size \div 8)]

NoModel == [class |-> "None", num_classes |-> 0, input_channels |-> 0,
            blocks |-> <<>>, fc_input_size |-> 0]

\* get_model falling back to SimpleCNN for an unknown name
get_model_Fallback(a) ==
    IF a.model_name = "resnet" THEN
        [exc |-> "none", model |-> ResNet(a.num_classes, a.input_channels)]
    ELSE
        [exc |-> "none",
         model |-> NewSimpleCNN(a.num_classes, a.input_channels, a.image_size)]

\* get_model(model_name, num_classes, input_channels, image_size)
get_model(a) ==
    IF a.model_name = "simple_cnn" THEN
        [exc |-> "none",
         model |-> NewSimpleCNN(a.num_classes, a.input_channels, a.image_size)]
    ELSE IF a.model_name = "resnet" THEN
        [exc |-> "none", model |-> ResNet(a.num_classes, a.input_channels)]
    ELSE
        [exc |-> "ValueError", model |-> NoModel]

\* the statements of ResNet.forward: the stem, the six blocks, the head
ResNetSteps == <<"conv1", "block", "block", "block", "block", "block", "block",
                 "avg_pool", "view", "fc">>

resnetRest == <<coreVars, resnetOthers>>

\* a call of get_model
get_model_call ==
    /\ net_pc = "get_model"
    /\ LET r == get_model(net_args) IN
        /\ net' = r.model
        /\ constructed' = IF r.model.class = "None" THEN constructed
                          ELSE Append(constructed, r.model.class)
        /\ net_pc' = IF r.exc # "none" THEN r.exc
                     ELSE IF r.model.class = "ResNet" THEN "forward"
                     ELSE "returned"
    /\ UNCHANGED <<net_args, net_x, net_step, block_in, block_main,
                   block_shortcut, resnetRest>>

\* ResNet.forward(x): the next statement
ResNet_forward ==
    /\ net_pc = "forward"
    /\ net_step < Len(ResNetSteps)
    /\ LET name == ResNetSteps[net_step + 1]
           b    == net.blocks[net_step]
           res  == CASE name = "conv1" ->
                          Conv2dStride(net.input_channels, 64, 3, 1, 1, net_x)
                     [] name = "block" -> BlockForward(b, net_x)
                     [] name = "avg_pool" -> Ok(<<net_x[1], net_x[2], 1, 1>>)
                     [] name = "view" -> View(net_x)
                     [] OTHER -> Linear(net.fc_input_size, net.num_classes, net_x)
       IN
        /\ IF name = "block" THEN
               /\ block_in' = net_x
               /\ block_main' = MainPath(b, net_x)
               /\ block_shortcut' = Shortcut(b, net_x)
           ELSE UNCHANGED <<block_in, block_main, block_shortcut>>
        /\ IF res.ok THEN
               /\ net_x' = res.shape
               /\ net_step' = net_step + 1
               /\ net_pc' = IF net_step + 1 = Len(ResNetSteps) THEN "forwarded"
                            ELSE "forward"
           ELSE
               /\ net_pc' = "RuntimeError"
               /\ UNCHANGED <<net_x, net_step>>
    /\ UNCHANGED <<net_args, net, constructed, resnetRest>>

ResnetIdle ==
    /\ net_pc = "idle"
    /\ net_args = [model_name |-> "", num_classes |-> 0, input_channels |-> 0,
                   image_size |-> 0, input |-> <<>>]
    /\ net = NoModel
    /\ constructed = <<>>
    /\ net_x = <<>>
    /\ net_step = 0
    /\ block_in = <<>>
    /\ block_main = RuntimeError
    /\ block_shortcut = RuntimeError

\* the arguments of get_model, and for a ResNet the input of forward
InitGetModel ==
    /\ net_pc = "get_model"
    /\ \E name \in ModelNames, nc \in ClassCounts, ic \in ChannelCounts,
          s \in {28, 32}, b \in BatchSizes, c \in ChannelCounts,
          h \in Sides, w \in Sides :
        /\ name # "resnet" => (c = ic /\ h = s /\ w = s)
        /\ net_args = [model_name |-> name, num_classes |-> nc,
                       input_channels |-> ic, image_size |-> s,
                       input |-> <<b, c, h, w>>]
        /\ net_x = <<b, c, h, w>>
    /\ net = NoModel
    /\ constructed = <<>>
    /\ net_step = 0
    /\ block_in = <<>>
    /\ block_main = RuntimeError
    /\ block_shortcut = RuntimeError

(***************************************************************************)
(* Properties of get_model and ResNet                                      *)
(***************************************************************************)
\* C21: get_model returns a SimpleCNN for "simple_cnn" and a ResNet for
\* "resnet"; for every other name it raises ValueError and no model has
\* been constructed.
C21_FactoryByName ==
    net_pc # "get_model" =>
        /\ net_args.model_name = "simple_cnn" =>
               net.class = "SimpleCNN" /\ net_pc = "returned"
        /\ net_args.model_name = "resnet" =>
               net.class = "ResNet" /\ net_pc # "ValueError"
        /\ net_args.model_name \notin {"simple_cnn", "resnet"} =>
               net_pc = "ValueError" /\ constructed = <<>> /\ net = NoModel
        /\ net_pc # "ValueError" => constructed = <<net.class>>

\* "resnet18" is no model name: ValueError, nothing constructed
C21_Witness ==
    /\ net_pc = "ValueError"
    /\ net_args.model_name = "resnet18"
    /\ constructed = <<>>

\* C30: in every ResidualBlock that has run (stride 1 or 2, any spatial
\* size), the main path and the shortcut give the same channel count and
\* spatial size, so the addition never fails; and a ResNet given an input
\* with the channels it was built for returns (batch, num_classes).
C30_ResidualShapesAgree ==
    /\ block_in # <<>> =>
         /\ block_main.ok /\ block_shortcut.ok
         /\ block_main.shape = block_shortcut.shape
    /\ (net.class = "ResNet" /\ net_args.input[2] = net_args.input_channels) =>
         /\ net_pc # "RuntimeError"
         /\ net_pc = "forwarded" => net_x = <<net_args.input[1], net_args.num_classes>>

\* the first block of layer2 (stride 2, 1x1 shortcut) on a 5 x 7 input: both
\* paths give 128 channels of 3 x 4
C30_Witness ==
    /\ net_pc = "forward"
    /\ block_in = <<4, 64, 5, 7>>
    /\ block_main = Ok(<<4, 128, 3, 4>>)
    /\ block_shortcut = Ok(<<4, 128, 3, 4>>)

\* every later subsystem before it is used
LaterIdle == ServeIdle /\ CnnIdle /\ WithIdle /\ FlatIdle /\ SplitIdle /\ MetricsIdle /\ LaunchIdle /\ ResnetIdle

serveOthersIdle == CnnIdle /\ WithIdle /\ FlatIdle /\ SplitIdle /\ MetricsIdle /\ LaunchIdle /\ ResnetIdle
cnnOthersIdle == ServeIdle /\ WithIdle /\ FlatIdle /\ SplitIdle /\ MetricsIdle /\ LaunchIdle /\ ResnetIdle
withOthersIdle == ServeIdle /\ CnnIdle /\ FlatIdle /\ SplitIdle /\ MetricsIdle /\ LaunchIdle /\ ResnetIdle
flatOthersIdle == ServeIdle /\ CnnIdle /\ WithIdle /\ SplitIdle /\ MetricsIdle /\ LaunchIdle /\ ResnetIdle
splitOthersIdle == ServeIdle /\ CnnIdle /\ WithIdle /\ FlatIdle /\ MetricsIdle /\ LaunchIdle /\ ResnetIdle
metricsOthersIdle == ServeIdle /\ CnnIdle /\ WithIdle /\ FlatIdle /\ SplitIdle /\ LaunchIdle /\ ResnetIdle
launchOthersIdle == ServeIdle /\ CnnIdle /\ WithIdle /\ FlatIdle /\ SplitIdle /\ MetricsIdle /\ ResnetIdle
resnetOthersIdle == ServeIdle /\ CnnIdle /\ WithIdle /\ FlatIdle /\ SplitIdle /\ MetricsIdle /\ LaunchIdle

CoreIdle == TrackerIdle /\ MainIdle /\ MeterIdle /\ EpochIdle /\ ckpt_file = NoFile

InitTracker ==
    /\ tracker_class \in {"experiment_tracking", "wandb_tracker"}
    /\ tracker_pc = "new"
    /\ cfg \in Configs
    /\ tracker_class = "wandb_tracker" => cfg.keys = AllAbsent
    /\ arg_backend \in BackendArgs
    /\ tracking_backend = S_empty
    /\ mlflow_run = "None"
    /\ wandb_run = "None"
    /\ avail \in [{"wandb", "mlflow"} -> BOOLEAN]
    /\ tracker_class = "experiment_tracking" => avail = [b \in {"wandb", "mlflow"} |-> TRUE]
    /\ trackers = <<>>
    /\ attempted = {}
    /\ init_failed = {}
    /\ last = NoCall
    /\ ckpt_file = NoFile

Init == InitTracker /\ MainIdle /\ MeterIdle /\ EpochIdle /\ LaterIdle

Next ==
    \/ ConstructTracker
    \/ log_params
    \/ log_metrics
    \/ log_artifact
    \/ log_model
    \/ log_figure
    \/ watch_model
    \/ finish
    \/ ConstructUnifiedTracker
    \/ unified_log
    \/ log_model_checkpoint
    \/ __enter__
    \/ __exit__

Spec == Init /\ [][Next]_vars

InitMeter == MeterIdle /\ TrackerIdle /\ MainIdle /\ EpochIdle /\ ckpt_file = NoFile /\ LaterIdle

NextMeter ==
    \/ reset
    \/ update

SpecMeter == InitMeter /\ [][NextMeter]_vars

InitEpoch == InitEpochCall /\ TrackerIdle /\ MainIdle /\ MeterIdle /\ ckpt_file = NoFile /\ LaterIdle

NextEpoch ==
    \/ NextBatch
    \/ Forward
    \/ ZeroGrad
    \/ Backward
    \/ ClipGradNorm
    \/ OptimizerStep
    \/ UpdateMetrics
    \/ Return

SpecEpoch == InitEpoch /\ [][NextEpoch]_vars
InitTrain == InitMain /\ TrackerIdle /\ MeterIdle /\ EpochIdle /\ LaterIdle

NextTrain ==
    \/ TrainAndValidate
    \/ LoopExhausted
    \/ SaveBestModel
    \/ EarlyStopping
    \/ LoadBestModel
    \/ EvaluateOnTestSet

SpecTrain == InitTrain /\ [][NextTrain]_vars
InitServe == InitServing /\ CoreIdle /\ serveOthersIdle

NextServe ==
    \/ startup_event
    \/ load_model_call
    \/ predict
    \/ predict_after_read
    \/ health_check
    \/ model_info
    \/ main_startup_event
    \/ predict_image_api
    \/ predict_image_api_after_read
    \/ predict_batch_api
    \/ predict_batch_next_file
    \/ predict_batch_after_read
    \/ ReplaceModelFile

SpecServe == InitServe /\ [][NextServe]_vars

InitCNN == InitCnn /\ CoreIdle /\ cnnOthersIdle

NextCNN ==
    \/ SimpleCNN
    \/ forward

SpecCNN == InitCNN /\ [][NextCNN]_vars

InitFlatten == InitFlat /\ CoreIdle /\ flatOthersIdle

NextFlatten == _flatten_dict

SpecFlatten == InitFlatten /\ [][NextFlatten]_vars

InitSplit == InitSplitting /\ CoreIdle /\ splitOthersIdle

NextSplit ==
    \/ load_data
    \/ train_batch
    \/ validate_batch

SpecSplit == InitSplit /\ [][NextSplit]_vars

InitCalculate == InitMetrics /\ CoreIdle /\ metricsOthersIdle

NextCalculate == calculate_metrics

SpecCalculate == InitCalculate /\ [][NextCalculate]_vars

InitLauncher == InitLaunch /\ CoreIdle /\ launchOthersIdle

NextLauncher ==
    \/ check_dependencies
    \/ setup_environment
    \/ subprocess_run
    \/ subprocess_returns
    \/ KeyboardInterrupt

SpecLauncher == InitLauncher /\ [][NextLauncher]_vars

InitModels == InitGetModel /\ CoreIdle /\ resnetOthersIdle

NextModels ==
    \/ get_model_call
    \/ ResNet_forward

SpecModels == InitModels /\ [][NextModels]_vars
====
